---- MODULE Spec2Model ----
(***************************************************************************)
(* Relay between the Telegram Bot API (webhook updates in, send calls out) *)
(* and the main server, as implemented by TelegramService (stateless       *)
(* variant, src/src/services/telegram_service.ts:484-843) and the webhook  *)
(* endpoint of app.ts.                                                     *)
(*                                                                         *)
(* Strings are sequences of characters; a character is a one-character     *)
(* TLA+ string.  Characters outside ASCII are spelled by a longer name     *)
(* (a UTF-16 code unit such as "D83C", or a whole Persian phrase such as   *)
(* "FA:sent"), so none of them equals an ASCII character.                  *)
(***************************************************************************)
EXTENDS Integers, Sequences, FiniteSets, TLC

\* ------------------------------------------------------------------ bounds
MaxIdLen == 2

\* ------------------------------------------------------- JavaScript values
\* The values undefined and null, in the positions where the code expects a
\* string.
Undefined == <<"<undefined>">>

Null == <<"<null>">>

\* JavaScript truthiness of a string, undefined or null.
Truthy(s) == s # Undefined /\ s # Null /\ s # <<>>

\* String(x): the text a template literal or + produces for x.
Str(s) ==
  IF s = Undefined THEN <<"u","n","d","e","f","i","n","e","d">>
  ELSE IF s = Null THEN <<"n","u","l","l">>
  ELSE s

Digits == <<"0","1","2","3","4","5","6","7","8","9">>

RECURSIVE NatToString(_)
NatToString(n) ==
  IF n < 10 THEN <<Digits[n + 1]>>
  ELSE NatToString(n \div 10) \o <<Digits[(n % 10) + 1]>>

\* Number.prototype.toString() of an integer.
NumberToString(n) == IF n < 0 THEN <<"-">> \o NatToString(0 - n) ELSE NatToString(n)

StartsWith(s, p) == Len(s) >= Len(p) /\ SubSeq(s, 1, Len(p)) = p

\* String.prototype.split("_")
RECURSIVE Split(_)
Split(s) ==
  LET hits == {i \in 1..Len(s) : s[i] = "_"}
  IN IF hits = {} THEN <<s>>
     ELSE LET i == CHOOSE k \in hits : \A m \in hits : k <= m
          IN <<SubSeq(s, 1, i - 1)>> \o Split(SubSeq(s, i + 1, Len(s)))

\* String.prototype.split(" ")[0]
FirstWord(s) ==
  LET hits == {i \in 1..Len(s) : s[i] = " "}
  IN IF hits = {} THEN s
     ELSE SubSeq(s, 1, (CHOOSE k \in hits : \A m \in hits : k <= m) - 1)

\* parts[k] of a JavaScript array (0-based; undefined past the end).
Part(parts, k) == IF k + 1 <= Len(parts) THEN parts[k + 1] ELSE Undefined

UpperCase == <<"A","B","C","D","E","F","G","H","I","J","K","L","M",
               "N","O","P","Q","R","S","T","U","V","W","X","Y","Z">>
LowerCase == <<"a","b","c","d","e","f","g","h","i","j","k","l","m",
               "n","o","p","q","r","s","t","u","v","w","x","y","z">>

LowerChar(ch) ==
  IF \E i \in 1..Len(UpperCase) : UpperCase[i] = ch
  THEN LowerCase[CHOOSE i \in 1..Len(UpperCase) : UpperCase[i] = ch]
  ELSE ch

\* String.prototype.toLowerCase()
ToLowerCase(s) == [i \in 1..Len(s) |-> LowerChar(s[i])]

DigitVal(ch) == (CHOOSE i \in 1..10 : Digits[i] = ch) - 1

IsDigit(ch) == \E i \in 1..10 : Digits[i] = ch

RECURSIVE DigitsValue(_)
DigitsValue(ds) ==
  IF ds = <<>> THEN 0
  ELSE 10 * DigitsValue(SubSeq(ds, 1, Len(ds) - 1)) + DigitVal(ds[Len(ds)])

RECURSIVE TrimLeft(_)
TrimLeft(s) == IF s # <<>> /\ s[1] = " " THEN TrimLeft(Tail(s)) ELSE s

\* The longest prefix of s made of decimal digits.
DigitPrefix(s) ==
  LET n == CHOOSE k \in 0..Len(s) :
             /\ \A i \in 1..k : IsDigit(s[i])
             /\ (k < Len(s) => ~IsDigit(s[k + 1]))
  IN SubSeq(s, 1, n)

\* parseInt(x, 10): leading blanks are skipped, then an optional sign, then
\* the longest run of digits; no digit gives NaN.
parseInt(x) ==
  LET s    == TrimLeft(Str(x))
      neg  == s # <<>> /\ s[1] = "-"
      body == IF s # <<>> /\ s[1] \in {"-", "+"} THEN Tail(s) ELSE s
      ds   == DigitPrefix(body)
  IN IF ds = <<>> THEN [nan |-> TRUE, val |-> 0]
     ELSE [nan |-> FALSE, val |-> IF neg THEN 0 - DigitsValue(ds) ELSE DigitsValue(ds)]

Range(s) == {s[i] : i \in 1..Len(s)}

\* Array.prototype.join(", ")
RECURSIVE Join(_)
Join(ss) ==
  IF ss = <<>> THEN <<>>
  ELSE IF Len(ss) = 1 THEN ss[1]
  ELSE ss[1] \o <<",", " ">> \o Join(Tail(ss))

\* -------------------------------------------------- correlation-id codec
\* The literal the id is embedded after: the emoji U+1F194 (two UTF-16 code
\* units, the pattern has no u flag) followed by " Chat ID: ".
ChatIdLabel == <<"D83C","DD94"," ","C","h","a","t"," ","I","D",":"," ">>

\* The character class [a-zA-Z0-9-_] of the extraction pattern.
LegalChars == Range(LowerCase) \cup Range(UpperCase) \cup Range(Digits) \cup {"-", "_"}

\* new Date(message.timestamp).toLocaleString("fa-IR"): Persian digits and
\* separators, none of them an ASCII character.
LocaleString == <<"FA:datetime">>

\* TelegramService.formatMessageForTelegram
formatMessageForTelegram(chat, message) ==
  LET userInfo ==
        Str(chat.user.name) \o
        (IF Truthy(chat.user.phoneNumber)
         THEN <<" ", "(">> \o chat.user.phoneNumber \o <<")">> ELSE <<>>)
      head ==
        <<"D83D","DCAC"," ","<","b",">","FA:new-message-from"," ">> \o userInfo
          \o <<"<","/","b",">","\n">>
      idLine ==
        <<"<","c","o","d","e",">">> \o ChatIdLabel \o Str(chat.chatId)
          \o <<"<","/","c","o","d","e",">","\n">>
      timeLine == <<"23F0"," ">> \o LocaleString \o <<"\n">>
      pageLine ==
        IF Truthy(chat.user.currentPage)
        THEN <<"D83D","DCCD"," ","FA:page",":"," ">> \o chat.user.currentPage \o <<"\n">>
        ELSE <<>>
      tagLine ==
        IF Len(chat.tags) > 0
        THEN <<"D83C","DFF7","FE0F"," ","FA:tags",":"," ">> \o Join(chat.tags) \o <<"\n">>
        ELSE <<>>
      body ==
        <<"\n","D83D","DCDD"," ","<","b",">","FA:message",":","<","/","b",">","\n">>
          \o (IF Truthy(message.content.text) THEN message.content.text
              ELSE <<"(","FA:file",")">>)
  IN head \o idLine \o timeLine \o pageLine \o tagLine \o body

\* The pattern matches at position i: the label, then one legal character.
MatchesAt(text, i) ==
  /\ i + Len(ChatIdLabel) <= Len(text)
  /\ SubSeq(text, i, i + Len(ChatIdLabel) - 1) = ChatIdLabel
  /\ text[i + Len(ChatIdLabel)] \in LegalChars

\* extractChatIdFromMessage with a lazy group, ([a-zA-Z0-9-_]+?): one character.
extractChatIdFromMessage_Lazy(text) ==
  LET hits == {i \in 1..Len(text) : MatchesAt(text, i)}
  IN IF hits = {} THEN Null
     ELSE LET i == CHOOSE k \in hits : \A m \in hits : k <= m
          IN <<text[i + Len(ChatIdLabel)]>>

\* TelegramService.extractChatIdFromMessage: the leftmost match of
\* /<label>([a-zA-Z0-9-_]+)/, its group taken greedily; null without a match.
extractChatIdFromMessage(text) ==
  LET hits == {i \in 1..Len(text) : MatchesAt(text, i)}
  IN IF hits = {} THEN Null
     ELSE LET i     == CHOOSE k \in hits : \A m \in hits : k <= m
              first == i + Len(ChatIdLabel)
              last  == CHOOSE j \in first..Len(text) :
                         /\ \A k \in first..j : text[k] \in LegalChars
                         /\ (j < Len(text) => text[j + 1] \notin LegalChars)
          IN SubSeq(text, first, last)

\* ------------------------------------------------------------ action tokens
AssignType   == <<"a","s","s","i","g","n">>
ReplyingType == <<"r","e","p","l","y","i","n","g">>
CloseType    == <<"c","l","o","s","e">>
QuickmsgType == <<"q","u","i","c","k","m","s","g">>

\* The token written with another delimiter than the one the handler splits on.
ActionToken_Dash(actionType, chatId) == actionType \o <<"-">> \o Str(chatId)

\* `${actionType}_${chatId}` as sendMessageToTelegram writes it.
ActionToken(actionType, chatId) == actionType \o <<"_">> \o Str(chatId)

\* The inline_keyboard row of sendMessageToTelegram (callback_data only).
inlineKeyboard(chat) ==
  << ActionToken(AssignType, chat.chatId),
     ActionToken(ReplyingType, chat.chatId),
     ActionToken(CloseType, chat.chatId) >>

\* TelegramService.quickReplies: four canned Persian sentences.
quickReplies == << <<"FA:reply-0">>, <<"FA:reply-1">>, <<"FA:reply-2">>, <<"FA:reply-3">> >>

\* The lookup with a negative index counting from the end, as Array.at does.
QuickReplyAt_Wrap(index) ==
  IF index.nan THEN Undefined
  ELSE IF index.val >= 0 /\ index.val < Len(quickReplies) THEN quickReplies[index.val + 1]
  ELSE IF index.val < 0 /\ 0 - index.val <= Len(quickReplies)
       THEN quickReplies[Len(quickReplies) + index.val + 1]
  ELSE Undefined

\* this.quickReplies[index] for the number parseInt returned.
QuickReplyAt(index) ==
  IF ~index.nan /\ index.val >= 0 /\ index.val < Len(quickReplies)
  THEN quickReplies[index.val + 1]
  ELSE Undefined

\* The notices answerCallbackQuery carries.
NoticeSent     == <<"FA:quick-reply-sent">>
NoticeNotFound == <<"FA:quick-reply-not-found">>
NoticeClosed   == <<"FA:chat-closed">>
NoticeAssigned == <<"FA:chat-assigned-to-you">>
NoticeReplying == <<"FA:replying-status-sent">>
StatusText     == <<"2705", " ", "FA:service-active-and-connected">>
StatefulStatusText == <<"FA:standalone-service-active">>

\* The error notice of handleReplyMessage: a Persian sentence ending in the
\* conversation id.
ErrorNotice(chatId) == <<"274C"," ","FA:forward-failed-for-chat"," ">> \o Str(chatId)

\* ------------------------------------------------------------------ inputs
\* Characters the conversation ids of the inputs are made of: a letter and
\* the two punctuation characters of the legal alphabet; one more id has an
\* upper-case letter and a digit.
IdAlphabet == {"a", "-", "_"}

SeqsUpTo(S, n) == UNION {[1..k -> S] : k \in 1..n}

ChatIds == SeqsUpTo(IdAlphabet, MaxIdLen) \cup {<<"Z","9">>}

\* process.env.TELEGRAM_CHAT_ID, and the numeric chat ids updates carry.
GroupChatId == 0 - 100
GroupIdText == NumberToString(GroupChatId)
BotTokenText == <<"T","O","K">>

\* A user name that itself reads like an embedded id.
HostileName == ChatIdLabel \o <<"z">>

UserNames == {Undefined, <<"A","l","i">>, HostileName}

\* The optional fields of a chat besides the name: none, the phone number
\* alone, the page with tags, all of them.
OptionalFields ==
  { [phoneNumber |-> ph, currentPage |-> pg.currentPage, tags |-> pg.tags] :
      ph \in {Undefined, <<"0","9">>},
      pg \in { [currentPage |-> Undefined, tags |-> <<>>],
               [currentPage |-> <<"/","p">>,
                tags |-> << <<"v","i","p">>, <<"n","e","w">> >>] } }

Chats ==
  { [ chatId |-> c,
      user   |-> [name |-> n, phoneNumber |-> o.phoneNumber, currentPage |-> o.currentPage],
      tags   |-> o.tags,
      assignedAdminTelegramId |-> a ] :
      c \in ChatIds, n \in UserNames, o \in OptionalFields, a \in {Undefined, <<"7">>} }

FileUrl == <<"h","t","t","p","s",":","/","/","x","/","f">>

Messages ==
  [ content   : [ type    : {"text", "image", "file"},
                  text    : {Undefined, <<"h","i">>},
                  fileUrl : {Undefined, FileUrl} ],
    timestamp : {"t0"} ]

\* Texts typed in the group, not sent by the service: the label with a token,
\* the label without its emoji, the label with the second half of the emoji.
TypedLabel == ChatIdLabel \o <<"z">>

LabelWithoutEmoji == <<"C","h","a","t"," ","I","D",":"," ","a">>

LabelWithHalfEmoji == <<"DD94"," ","C","h","a","t"," ","I","D",":"," ","a">>

\* Texts of the messages an operator may quote: the messages the service
\* itself sent for a conversation, and texts without an embedded id.
PlainMessage == [content |-> [type |-> "text", text |-> <<"h","i">>, fileUrl |-> Undefined],
                 timestamp |-> "t0"]

PlainChat(c, n) ==
  [chatId |-> c,
   user |-> [name |-> n, phoneNumber |-> Undefined, currentPage |-> Undefined],
   tags |-> <<>>,
   assignedAdminTelegramId |-> Undefined]

NoRequest == [present |-> FALSE, chat |-> PlainChat(<<>>, Undefined), message |-> PlainMessage]

QuotedTexts ==
  {formatMessageForTelegram(PlainChat(c, n), PlainMessage) :
     c \in ChatIds, n \in {<<"A","l","i">>, HostileName}}
    \cup {Undefined, <<"h","e","y">>, ChatIdLabel}
    \cup {TypedLabel, LabelWithoutEmoji, LabelWithHalfEmoji}

NoReply == [present |-> FALSE, text |-> Undefined, caption |-> Undefined]

\* An image message as the main server hands it to sendMessageToTelegram.
ImageMessage == [content |-> [type |-> "image", text |-> Undefined, fileUrl |-> FileUrl],
                 timestamp |-> "t0"]

\* Quoted messages the service sent through sendPhoto: the formatted text is
\* their caption and they have no text.
CaptionedReplies ==
  { [present |-> TRUE, text |-> Undefined,
     caption |-> formatMessageForTelegram(PlainChat(c, <<"A","l","i">>), ImageMessage)] :
      c \in {<<"a">>, <<"Z","9">>} }

Replies ==
  {NoReply} \cup {[present |-> TRUE, text |-> q, caption |-> Undefined] : q \in QuotedTexts}
    \cup CaptionedReplies

NoChat == [present |-> FALSE, id |-> 0]

ChatRefs == {NoChat} \cup {[present |-> TRUE, id |-> i] : i \in {GroupChatId, 55}}

NoFrom == [present |-> FALSE, id |-> 0, first_name |-> Undefined, last_name |-> Undefined]

Froms ==
  { NoFrom,
    [present |-> TRUE, id |-> 7, first_name |-> <<"S","a","m">>, last_name |-> Undefined],
    [present |-> TRUE, id |-> 42, first_name |-> <<"S","a","m">>, last_name |-> <<"R">>] }

MessageTexts ==
  { Undefined, <<>>, <<"h","e","l","l","o">>,
    <<"/","s","t","a","r","t">>, <<"/","S","t","a","t","u","s"," ","x">>, <<"/","x">> }

NoDocument == [present |-> FALSE, file_id |-> "", file_name |-> Undefined]

\* photo is the array of sizes (their file ids), empty when the field is absent.
Media ==
  { [photo |-> <<>>, document |-> NoDocument, caption |-> Undefined],
    [photo |-> <<"small", "large">>, document |-> NoDocument, caption |-> <<"c","a","p">>],
    [photo |-> <<>>,
     document |-> [present |-> TRUE, file_id |-> "doc", file_name |-> <<"a",".","p","d","f">>],
     caption |-> Undefined] }

Update(kind, chat, from, text, reply, media, data) ==
  [ kind |-> kind, chat |-> chat, from |-> from, text |-> text, reply |-> reply,
    photo |-> media.photo, document |-> media.document, caption |-> media.caption,
    data |-> data ]

NoMedia == [photo |-> <<>>, document |-> NoDocument, caption |-> Undefined]

\* A message carries a text or a medium; one carries both.
Bodies ==
  {[text |-> t, media |-> NoMedia] : t \in MessageTexts}
    \cup {[text |-> t, media |-> m] :
            t \in {Undefined, <<"h","e","l","l","o">>}, m \in Media \ {NoMedia}}

MessageUpdates ==
  { Update("message", ch, f, b.text, r, b.media, Undefined) :
      ch \in ChatRefs, f \in Froms, r \in Replies, b \in Bodies }

\* The webhookUrl initialize is called with: the route the router builds, or
\* none.
WebhookUrls == {Undefined, <<"h","t","t","p","s",":","/","/","h","/","a","p","i","/","t","e","l","e","g","r","a","m","/","w","e","b","h","o","o","k">>}

\* Index arguments of quickmsg tokens.
IndexArgs ==
  { <<"0">>, <<"3">>, <<"4">>, <<"1","0">>, <<"-","1">>, <<"-","0">>,
    <<"x">>, <<>>, <<"1","a">>, <<" ","2">> }

CallbackData ==
  {ActionToken(ty, c) : ty \in {AssignType, ReplyingType, CloseType}, c \in ChatIds}
    \cup {ActionToken(QuickmsgType, c) \o <<"_">> \o i : c \in ChatIds, i \in IndexArgs}
    \cup {ActionToken(QuickmsgType, c) : c \in ChatIds}
    \cup { Undefined, CloseType, CloseType \o <<"_">>,
           <<"q","u","i","c","k","_","a">>, <<"t","a","g","_","a">> }

CallbackUpdates ==
  { Update("callback_query", ch, f, Undefined, NoReply, NoMedia, d) :
      ch \in ChatRefs, f \in Froms, d \in CallbackData }

\* A body that is neither a message nor a callback, and an absent body.
OtherUpdate == Update("other", NoChat, NoFrom, Undefined, NoReply, NoMedia, Undefined)
AbsentBody  == Update("undefined", NoChat, NoFrom, Undefined, NoReply, NoMedia, Undefined)
NoUpdate    == Update("none", NoChat, NoFrom, Undefined, NoReply, NoMedia, Undefined)

Updates == MessageUpdates \cup CallbackUpdates \cup {OtherUpdate, AbsentBody}

\* process.env.MAIN_SERVER_API_KEY and the x-api-key headers of the requests:
\* absent, another key, the key.
ApiKeyText == <<"K">>

ApiKeys == {Undefined, <<"w">>, ApiKeyText}

\* The environment: the bot variables set or unset with the API key set, and
\* one environment without the API key.
Envs ==
  [botToken : {Undefined, BotTokenText}, groupId : {Undefined, GroupIdText},
   mainServerApiKey : {ApiKeyText}]
    \cup {[botToken |-> Undefined, groupId |-> GroupIdText, mainServerApiKey |-> Undefined]}

\* The environments the stateful service is run in: everything set, and the
\* one without the bot token and the API key.
StatefulEnvs ==
  { [botToken |-> BotTokenText, groupId |-> GroupIdText, mainServerApiKey |-> ApiKeyText],
    [botToken |-> Undefined, groupId |-> GroupIdText, mainServerApiKey |-> Undefined] }

\* The bodies of POST /message-to-telegram: {chat, message}, either possibly
\* missing.
Body(hasChat, chat, hasMessage, message) ==
  [hasChat |-> hasChat, chat |-> chat, hasMessage |-> hasMessage, message |-> message]

FullBodies == {Body(TRUE, c, TRUE, m) : c \in Chats, m \in Messages}

PartialBodies ==
  {Body(hc, PlainChat(<<"a">>, Undefined), hm, PlainMessage) :
     hc \in BOOLEAN, hm \in BOOLEAN} \ {Body(TRUE, PlainChat(<<"a">>, Undefined), TRUE, PlainMessage)}

SampleBodies ==
  {Body(TRUE, PlainChat(c, <<"A","l","i">>), TRUE, PlainMessage) : c \in {<<"a">>, <<"Z","9">>}}

\* The requests: every body with the key, some bodies with each header value.
HttpRequests ==
  {[apiKey |-> ApiKeyText, body |-> b] : b \in FullBodies}
    \cup {[apiKey |-> k, body |-> b] : k \in ApiKeys, b \in SampleBodies \cup PartialBodies}

\* The message ids the platform assigns.
MessageIds == {501, 502}

\* What is known of the HTTP request being served, and the JSON body of the
\* response.
NoHttp == [present |-> FALSE, apiKey |-> Undefined, hasChat |-> FALSE, hasMessage |-> FALSE]

NoBody == [kind |-> "none", success |-> FALSE, telegramMessageId |-> 0]

TextBody == [kind |-> "text", success |-> FALSE, telegramMessageId |-> 0]

JsonBody(success, id) == [kind |-> "json", success |-> success, telegramMessageId |-> id]

\* ------------------------------------------------------------------- state
VARIABLES
  env,       \* process.env: TELEGRAM_BOT_TOKEN and TELEGRAM_CHAT_ID
  pc,        \* where the request being served stands
  update,    \* the body of the webhook delivery being served
  request,   \* the {chat, message} of the sendMessageToTelegram call being served
  calls,     \* the outbound calls issued for the request, in the order issued
  fileUrl,   \* handleReplyMessage's local fileUrl
  outcome,   \* how the promise of handleUpdate settled
  status,    \* the HTTP status the webhook endpoint answered with
  returned,  \* what sendMessageToTelegram or initialize returned
  variant,   \* which TelegramService is built: "stateless" or "stateful"
  service,   \* the fields of the stateful TelegramService
  webhookUrl, \* the parameter of the initialize call being served
  http,      \* the POST /message-to-telegram request being served
  responseBody, \* the body of the HTTP response
  waiting,   \* the locals of the other request, which waits at an await
  menus,     \* the quick-reply menus shown in the control group (their tokens)
  registered \* the webhook URL the platform holds for the bot, or Undefined

vars == <<env, pc, update, request, calls, fileUrl, outcome, status, returned,
          variant, service, webhookUrl, http, responseBody, waiting, menus,
          registered>>

exchange == <<http, responseBody>>

serviceState == <<variant, service>>

\* Return values of sendMessageToTelegram: none yet, a value (null or the
\* message id), or an exception.
NotReturned == [kind |-> "none", id |-> 0]

ReturnedNull == [kind |-> "null", id |-> 0]

ReturnedId(n) == [kind |-> "id", id |-> n]

Threw == [kind |-> "thrown", id |-> 0]

ReturnedBool(b) == [kind |-> "bool", id |-> IF b THEN 1 ELSE 0]

\* The field initialisers and the constructor of the stateful TelegramService.
NewService ==
  [ apiClient |-> FALSE, groupId |-> Null, isConnected |-> FALSE, botToken |-> Null,
    baseUrl |-> <<>>, isInitializing |-> FALSE, webhookUrl |-> Null ]

\* x || null
OrNull(x) == IF Truthy(x) THEN x ELSE Null

\* The locals of a request: the running one's, and those of no request.
Locals ==
  [ pc |-> pc, update |-> update, request |-> request, calls |-> calls,
    fileUrl |-> fileUrl, outcome |-> outcome, status |-> status, returned |-> returned,
    webhookUrl |-> webhookUrl, http |-> http, responseBody |-> responseBody ]

IdleLocals ==
  [ pc |-> "idle", update |-> NoUpdate, request |-> NoRequest, calls |-> <<>>,
    fileUrl |-> Undefined, outcome |-> "none", status |-> 0, returned |-> NotReturned,
    webhookUrl |-> Undefined, http |-> NoHttp, responseBody |-> NoBody ]

Init ==
  /\ env \in Envs
  /\ pc = "idle"
  /\ update = NoUpdate
  /\ request = NoRequest
  /\ calls = <<>>
  /\ fileUrl = Undefined
  /\ outcome = "none"
  /\ status = 0
  /\ returned = NotReturned
  /\ variant \in {"stateless", "stateful"}
  /\ variant = "stateful" => env \in StatefulEnvs
  /\ service = NewService
  /\ webhookUrl = Undefined
  /\ http = NoHttp
  /\ responseBody = NoBody
  /\ waiting = IdleLocals
  /\ menus = {}
  /\ registered = Undefined

\* ---------------------------------------------------------- stateless service
\* TelegramService.getEnv throws when either variable is unset.
getEnvThrows == ~Truthy(env.botToken) \/ ~Truthy(env.groupId)

\* The catch clauses of the handlers: what becomes of an exception thrown
\* inside the try block ("returned": logged and swallowed, the function
\* returns normally; "thrown": it leaves the function).
\* The catch clause of handleUpdate logging and throwing the error again.
handleUpdateCatch_Rethrow == "thrown"

handleUpdateCatch == "returned"

handleMessageCatch == "returned"

handleCallbackQueryCatch == "returned"

\* How handleUpdate settles when an exception leaves handleMessage or
\* handleCallbackQuery, and when one is thrown inside handleMessage's try.
ThrownToHandleUpdate == handleUpdateCatch

ThrownInHandleMessageTry ==
  IF handleMessageCatch = "returned" THEN "returned" ELSE ThrownToHandleUpdate

ThrownInHandleCallbackQueryTry ==
  IF handleCallbackQueryCatch = "returned" THEN "returned" ELSE ThrownToHandleUpdate

\* handleUpdate settles with outcome o; the endpoint answers next.
Settle(o) == pc' = "respond" /\ outcome' = o

\* adminInfo of handleReplyMessage and handleCallbackQuery.
AdminInfo(from) ==
  [ name |-> Str(from.first_name) \o
             (IF Truthy(from.last_name) THEN <<" ">> \o from.last_name ELSE <<>>),
    telegramId |-> NumberToString(from.id) ]

\* The locals of handleMessage.
IsReply(u) == u.reply.present

IsCommand(u) == Truthy(u.text) /\ StartsWith(u.text, <<"/">>)

\* The quoted text, the caption standing in where there is no text.
QuotedText_OrCaption(u) ==
  IF Truthy(u.reply.text) THEN u.reply.text
  ELSE IF Truthy(u.reply.caption) THEN u.reply.caption
  ELSE <<>>

\* message.reply_to_message.text || ""
QuotedText(u) == IF Truthy(u.reply.text) THEN u.reply.text ELSE <<>>

MessageChatId(u) == IF IsReply(u) THEN extractChatIdFromMessage(QuotedText(u)) ELSE Null

\* The locals of handleCallbackQuery.
Parts(u) == Split(u.data)

ActionType(u) == Part(Parts(u), 0)

CallbackChatId(u) == Part(Parts(u), 1)

ReplyText(u) == QuickReplyAt(parseInt(Part(Parts(u), 2)))

\* The event table without the replying action.
EventType_NoReplying(u) ==
  IF ActionType(u) = CloseType THEN "chat_close"
  ELSE IF ActionType(u) = AssignType THEN "chat_assign"
  ELSE ""

\* The event table with an event for every other action type.
EventType_Fallback(u) ==
  IF ActionType(u) = CloseType THEN "chat_close"
  ELSE IF ActionType(u) = AssignType THEN "chat_assign"
  ELSE IF ActionType(u) = ReplyingType THEN "admin_typing"
  ELSE "admin_action"

EventType(u) ==
  IF ActionType(u) = CloseType THEN "chat_close"
  ELSE IF ActionType(u) = AssignType THEN "chat_assign"
  ELSE IF ActionType(u) = ReplyingType THEN "admin_typing"
  ELSE ""

AnswerText(u) ==
  IF ActionType(u) = QuickmsgType
  THEN (IF Truthy(ReplyText(u)) THEN NoticeSent ELSE NoticeNotFound)
  ELSE IF ActionType(u) = CloseType THEN NoticeClosed
  ELSE IF ActionType(u) = AssignType THEN NoticeAssigned
  ELSE IF ActionType(u) = ReplyingType THEN NoticeReplying
  ELSE <<>>

\* mainApiService.forwardUpdateToMainServer(payload): one POST, which
\* succeeds or throws.
Forward(event, data, ok) == [api |-> "forward", event |-> event, data |-> data, ok |-> ok]

\* makeApiCall(method, params): one POST to the Bot API, which succeeds or
\* throws.
ApiCall(method, params, ok) == [api |-> method, params |-> params, ok |-> ok]

\* app.post("/api/telegram-webhook"): a delivery arrives, handleUpdate is called.
PostWebhook(u) ==
  /\ pc = "idle"
  /\ pc' = "handleUpdate"
  /\ update' = u
  /\ request' = NoRequest
  /\ calls' = <<>>
  /\ fileUrl' = Undefined
  /\ outcome' = "pending"
  /\ status' = 0
  /\ returned' = NotReturned
  /\ UNCHANGED <<env, waiting, menus, registered, exchange, serviceState, webhookUrl>>

\* TelegramService.handleUpdate: dispatch on the kind of update.
HandleUpdate ==
  /\ pc = "handleUpdate" /\ variant = "stateless"
  /\ IF update.kind = "undefined" THEN Settle(ThrownToHandleUpdate)
     ELSE IF update.kind = "message" THEN pc' = "handleMessage" /\ UNCHANGED outcome
     ELSE IF update.kind = "callback_query"
          THEN pc' = "handleCallbackQuery" /\ UNCHANGED outcome
     ELSE Settle("returned")
  /\ UNCHANGED <<env, waiting, menus, registered, exchange, serviceState, webhookUrl, update, request, calls, fileUrl, status, returned>>

\* handleMessage without the early return for replies that quote no id.
HandleMessage_NoDrop ==
  /\ pc = "handleMessage"
  /\ IF getEnvThrows \/ ~update.chat.present THEN Settle(ThrownToHandleUpdate)
     ELSE IF NumberToString(update.chat.id) # env.groupId THEN Settle("returned")
     ELSE IF IsCommand(update) THEN pc' = "handleCommand" /\ UNCHANGED outcome
     ELSE IF IsReply(update) /\ Truthy(MessageChatId(update))
          THEN pc' = "handleReplyMessage" /\ UNCHANGED outcome
     ELSE Settle("returned")
  /\ UNCHANGED <<env, waiting, menus, registered, exchange, serviceState, webhookUrl, update, request, calls, fileUrl, status, returned>>

\* handleMessage treating every message that is no command as an operator reply.
HandleMessage_ForwardPlain ==
  /\ pc = "handleMessage"
  /\ IF getEnvThrows \/ ~update.chat.present THEN Settle(ThrownToHandleUpdate)
     ELSE IF NumberToString(update.chat.id) # env.groupId THEN Settle("returned")
     ELSE IF ~Truthy(MessageChatId(update)) /\ IsReply(update) THEN Settle("returned")
     ELSE IF IsCommand(update) THEN pc' = "handleCommand" /\ UNCHANGED outcome
     ELSE pc' = "handleReplyMessage" /\ UNCHANGED outcome
  /\ UNCHANGED <<env, waiting, menus, registered, exchange, serviceState, webhookUrl, update, request, calls, fileUrl, status, returned>>

\* TelegramService.handleMessage up to its first await.
HandleMessage ==
  /\ pc = "handleMessage"
  /\ IF getEnvThrows \/ ~update.chat.present THEN Settle(ThrownToHandleUpdate)
     ELSE IF NumberToString(update.chat.id) # env.groupId THEN Settle("returned")
     ELSE IF ~Truthy(MessageChatId(update)) /\ IsReply(update) THEN Settle("returned")
     ELSE IF IsCommand(update) THEN pc' = "handleCommand" /\ UNCHANGED outcome
     ELSE IF IsReply(update) /\ Truthy(MessageChatId(update))
          THEN pc' = "handleReplyMessage" /\ UNCHANGED outcome
     ELSE Settle("returned")
  /\ UNCHANGED <<env, waiting, menus, registered, exchange, serviceState, webhookUrl, update, request, calls, fileUrl, status, returned>>

\* handleCommand knowing /start only.
HandleCommand_StartOnly ==
  /\ pc = "handleCommand"
  /\ IF ToLowerCase(FirstWord(update.text)) = <<"/","s","t","a","r","t">>
     THEN pc' = "commandReply" /\ UNCHANGED outcome
     ELSE Settle("returned")
  /\ UNCHANGED <<env, waiting, menus, registered, exchange, serviceState, webhookUrl, update, request, calls, fileUrl,
                 status, returned>>

\* TelegramService.handleCommand up to its await.
HandleCommand ==
  /\ pc = "handleCommand"
  /\ IF ToLowerCase(FirstWord(update.text))
          \in {<<"/","s","t","a","r","t">>, <<"/","s","t","a","t","u","s">>}
     THEN pc' = "commandReply" /\ UNCHANGED outcome
     ELSE Settle("returned")
  /\ UNCHANGED <<env, waiting, menus, registered, exchange, serviceState, webhookUrl, update, request, calls, fileUrl, status, returned>>

\* The sendMessage of handleCommand; a failure is caught in handleMessage.
CommandReply(ok) ==
  /\ pc = "commandReply"
  /\ calls' = Append(calls,
       ApiCall("sendMessage",
               [chat_id |-> NumberToString(update.chat.id), text |-> StatusText,
                reply_markup |-> <<>>], ok))
  /\ Settle(IF ok THEN "returned" ELSE ThrownInHandleMessageTry)
  /\ UNCHANGED <<env, waiting, menus, registered, exchange, serviceState, webhookUrl, update, request, fileUrl, status, returned>>

\* The file id handleReplyMessage resolves: the largest photo size, else the
\* document.
FileId(u) ==
  IF u.photo # <<>> THEN u.photo[Len(u.photo)]
  ELSE IF u.document.present THEN u.document.file_id
  ELSE ""

\* TelegramService.handleReplyMessage up to its first await.
HandleReplyMessage ==
  /\ pc = "handleReplyMessage"
  /\ IF ~update.from.present THEN pc' = "replyErrorNotice"
     ELSE IF Truthy(update.text) THEN pc' = "replyForward"
     ELSE IF FileId(update) # "" THEN pc' = "replyGetFile"
     ELSE pc' = "replyForward"
  /\ fileUrl' = Null
  /\ UNCHANGED <<env, waiting, menus, registered, exchange, serviceState, webhookUrl, update, request, calls, outcome, status, returned>>

\* The URL getFileUrl builds from the answer of getFile.
ResolvedUrl(fileId) == <<"f","i","l","e","/","b","o","t">> \o env.botToken \o <<"/", fileId>>

\* TelegramService.getFileUrl: the call answers ok, answers not ok, or fails.
ReplyGetFile(answer) ==
  /\ pc = "replyGetFile"
  /\ calls' = Append(calls,
       ApiCall("getFile", [file_id |-> FileId(update)], answer # "failed"))
  /\ fileUrl' = IF answer = "ok" THEN ResolvedUrl(FileId(update)) ELSE Null
  /\ pc' = "replyForward"
  /\ UNCHANGED <<env, waiting, menus, registered, exchange, serviceState, webhookUrl, update, request, outcome, status, returned>>

\* The content handleReplyMessage builds.
ReplyContent(u, url) ==
  IF Truthy(u.text) THEN [type |-> "text", text |-> u.text]
  ELSE [ type |-> IF u.photo # <<>> THEN "image" ELSE "file",
         text |-> IF Truthy(u.caption) THEN u.caption ELSE <<>>,
         fileName |-> IF u.document.present /\ Truthy(u.document.file_name)
                      THEN u.document.file_name
                      ELSE <<"i","m","a","g","e","_","<now>",".","j","p","g">>,
         fileUrl |-> url ]

\* The forward of handleReplyMessage issued a second time after a failure.
ReplyForward_RetryOnce(ok) ==
  /\ pc = "replyForward"
  /\ calls' = Append(calls,
       Forward("admin_message",
               [chatId |-> MessageChatId(update),
                message |-> [sender |-> "admin",
                             senderInfo |-> AdminInfo(update.from),
                             content |-> ReplyContent(update, fileUrl),
                             timestamp |-> "now"]], ok))
  /\ IF ok THEN Settle("returned")
     ELSE IF \A i \in 1..Len(calls) : calls[i].api # "forward"
          THEN pc' = "replyForward" /\ UNCHANGED outcome
     ELSE pc' = "replyErrorNotice" /\ UNCHANGED outcome
  /\ UNCHANGED <<env, waiting, menus, registered, exchange, serviceState, webhookUrl, update, request, fileUrl, status, returned>>

\* The forward of handleReplyMessage.
ReplyForward(ok) ==
  /\ pc = "replyForward"
  /\ calls' = Append(calls,
       Forward("admin_message",
               [chatId |-> MessageChatId(update),
                message |-> [sender |-> "admin",
                             senderInfo |-> AdminInfo(update.from),
                             content |-> ReplyContent(update, fileUrl),
                             timestamp |-> "now"]], ok))
  /\ IF ok THEN Settle("returned") ELSE pc' = "replyErrorNotice" /\ UNCHANGED outcome
  /\ UNCHANGED <<env, waiting, menus, registered, exchange, serviceState, webhookUrl, update, request, fileUrl, status, returned>>

\* The catch clause of handleReplyMessage only logging the error.
ReplyErrorNotice_LogOnly(ok) ==
  /\ pc = "replyErrorNotice"
  /\ Settle("returned")
  /\ UNCHANGED <<env, waiting, menus, registered, exchange, serviceState, webhookUrl, update, request, calls, fileUrl, status, returned>>

\* The catch clause of handleReplyMessage: an error notice to the group; its
\* own failure is caught in handleMessage.
ReplyErrorNotice(ok) ==
  /\ pc = "replyErrorNotice"
  /\ calls' = Append(calls,
       ApiCall("sendMessage",
               [chat_id |-> env.groupId, text |-> ErrorNotice(MessageChatId(update)),
                reply_markup |-> <<>>], ok))
  /\ Settle(IF ok THEN "returned" ELSE ThrownInHandleMessageTry)
  /\ UNCHANGED <<env, waiting, menus, registered, exchange, serviceState, webhookUrl, update, request, fileUrl, status, returned>>

\* TelegramService.handleCallbackQuery up to its first await.
HandleCallbackQuery ==
  /\ pc = "handleCallbackQuery"
  /\ IF update.data = Undefined THEN Settle(ThrownInHandleCallbackQueryTry)
     ELSE IF ~Truthy(CallbackChatId(update)) THEN Settle("returned")
     ELSE IF ~update.from.present THEN Settle(ThrownInHandleCallbackQueryTry)
     ELSE IF ActionType(update) = QuickmsgType
          THEN /\ pc' = IF Truthy(ReplyText(update)) THEN "quickForward" ELSE "answer"
               /\ UNCHANGED outcome
     ELSE IF EventType(update) # "" THEN pc' = "answer" /\ UNCHANGED outcome
     ELSE Settle("returned")
  /\ UNCHANGED <<env, waiting, menus, registered, exchange, serviceState, webhookUrl, update, request, calls, fileUrl, status, returned>>

\* The quickmsg forward not awaited: the acknowledgment follows whatever
\* becomes of it.
QuickForward_NotAwaited(ok) ==
  /\ pc = "quickForward"
  /\ calls' = Append(calls,
       Forward("admin_message",
               [chatId |-> CallbackChatId(update),
                message |-> [sender |-> "admin",
                             senderInfo |-> AdminInfo(update.from),
                             content |-> [type |-> "text", text |-> ReplyText(update)],
                             timestamp |-> "now"]], ok))
  /\ pc' = "answer"
  /\ UNCHANGED <<env, waiting, menus, registered, exchange, serviceState, webhookUrl, update, request, fileUrl, outcome, status, returned>>

\* The forward of the quickmsg branch; the acknowledgment follows it.
QuickForward(ok) ==
  /\ pc = "quickForward"
  /\ calls' = Append(calls,
       Forward("admin_message",
               [chatId |-> CallbackChatId(update),
                message |-> [sender |-> "admin",
                             senderInfo |-> AdminInfo(update.from),
                             content |-> [type |-> "text", text |-> ReplyText(update)],
                             timestamp |-> "now"]], ok))
  /\ IF ok THEN pc' = "answer" /\ UNCHANGED outcome
     ELSE Settle(ThrownInHandleCallbackQueryTry)
  /\ UNCHANGED <<env, waiting, menus, registered, exchange, serviceState, webhookUrl, update, request, fileUrl, status, returned>>

\* The acknowledgment whose failure is ignored: the event is forwarded anyway.
Answer_FailureIgnored(ok) ==
  /\ pc = "answer"
  /\ IF getEnvThrows
     THEN /\ Settle(ThrownInHandleCallbackQueryTry)
          /\ UNCHANGED calls
     ELSE /\ calls' = Append(calls,
               ApiCall("answerCallbackQuery",
                       [callback_query_id |-> "q1", text |-> AnswerText(update)], ok))
          /\ IF ActionType(update) = QuickmsgType
             THEN Settle(IF ok THEN "returned" ELSE ThrownInHandleCallbackQueryTry)
             ELSE pc' = "eventForward" /\ UNCHANGED outcome
  /\ UNCHANGED <<env, waiting, menus, registered, exchange, serviceState, webhookUrl, update, request, fileUrl, status, returned>>

\* answerCallbackQuery(callbackQuery.id, text): makeApiCall reads the
\* environment first and throws, issuing nothing, when it is unset.
Answer(ok) ==
  /\ pc = "answer"
  /\ IF getEnvThrows
     THEN /\ Settle(ThrownInHandleCallbackQueryTry)
          /\ UNCHANGED calls
     ELSE /\ calls' = Append(calls,
               ApiCall("answerCallbackQuery",
                       [callback_query_id |-> "q1", text |-> AnswerText(update)], ok))
          /\ IF ~ok THEN Settle(ThrownInHandleCallbackQueryTry)
             ELSE IF ActionType(update) = QuickmsgType THEN Settle("returned")
             ELSE pc' = "eventForward" /\ UNCHANGED outcome
  /\ UNCHANGED <<env, waiting, menus, registered, exchange, serviceState, webhookUrl, update, request, fileUrl, status, returned>>

\* The forward of close, assign and replying.
EventForward(ok) ==
  /\ pc = "eventForward"
  /\ calls' = Append(calls,
       Forward(EventType(update),
               [chatId |-> CallbackChatId(update),
                admin |-> AdminInfo(update.from),
                timestamp |-> "now"], ok))
  /\ Settle(IF ok THEN "returned" ELSE ThrownInHandleCallbackQueryTry)
  /\ UNCHANGED <<env, waiting, menus, registered, exchange, serviceState, webhookUrl, update, request, fileUrl, status, returned>>

\* The endpoint answering 500 whenever a call made for the update failed.
Respond_FailureAware ==
  /\ pc = "respond"
  /\ status' = IF outcome = "returned" /\ \A i \in 1..Len(calls) : calls[i].ok
                THEN 200 ELSE 500
  /\ pc' = "done"
  /\ UNCHANGED <<env, waiting, menus, registered, exchange, serviceState, webhookUrl, update, request, calls, fileUrl, outcome, returned>>

\* app.post("/api/telegram-webhook"): 200 after handleUpdate returned, 500
\* when it threw.
Respond ==
  /\ pc = "respond"
  /\ status' = IF outcome = "returned" THEN 200 ELSE 500
  /\ pc' = "done"
  /\ UNCHANGED <<env, waiting, menus, registered, exchange, serviceState, webhookUrl, update, request, calls, fileUrl, outcome, returned>>

\* ------------------------------------------------------ sendMessageToTelegram
\* A caller invokes sendMessageToTelegram(chat, message).
CallSendMessageToTelegram(chat, message) ==
  /\ pc = "idle"
  /\ pc' = "sendMessageToTelegram"
  /\ request' = [present |-> TRUE, chat |-> chat, message |-> message]
  /\ update' = NoUpdate
  /\ calls' = <<>>
  /\ fileUrl' = Undefined
  /\ outcome' = "none"
  /\ status' = 0
  /\ returned' = NotReturned
  /\ UNCHANGED <<env, waiting, menus, registered, serviceState, webhookUrl>>

\* The selection sending every content with a file URL as a photo.
Transport_PhotoForFiles(message) ==
  IF message.content.type = "text" THEN "sendMessage"
  ELSE IF Truthy(message.content.fileUrl) THEN "sendPhoto"
  ELSE ""

\* The transport sendMessageToTelegram selects by content kind ("" for none).
Transport(message) ==
  IF message.content.type = "text" THEN "sendMessage"
  ELSE IF message.content.type = "image" /\ Truthy(message.content.fileUrl) THEN "sendPhoto"
  ELSE IF message.content.type = "file" /\ Truthy(message.content.fileUrl) THEN "sendDocument"
  ELSE ""

\* TelegramService.sendMessageToTelegram up to its await.
SendMessageToTelegram ==
  /\ pc = "sendMessageToTelegram" /\ variant = "stateless"
  /\ IF getEnvThrows THEN pc' = "messageResponse" /\ returned' = Threw
     ELSE IF Transport(request.message) = ""
          THEN pc' = "messageResponse" /\ returned' = ReturnedNull
     ELSE pc' = "send" /\ UNCHANGED returned
  /\ UNCHANGED <<env, waiting, menus, registered, exchange, serviceState, webhookUrl, update, request, calls, fileUrl, outcome, status>>

\* The parameters of sendMessage, sendPhoto and sendDocument.
SendParams(method, chat, message) ==
  LET messageText == formatMessageForTelegram(chat, message)
  IN IF method = "sendMessage"
     THEN [chat_id |-> env.groupId, text |-> messageText,
           reply_markup |-> inlineKeyboard(chat)]
     ELSE IF method = "sendPhoto"
     THEN [chat_id |-> env.groupId, photo |-> message.content.fileUrl,
           caption |-> messageText, reply_markup |-> inlineKeyboard(chat)]
     ELSE [chat_id |-> env.groupId, document |-> message.content.fileUrl,
           caption |-> messageText, reply_markup |-> inlineKeyboard(chat)]

\* A send call with the answer of the platform: result.message_id.
SendCall(method, params, ok, id) ==
  [api |-> method, params |-> params, ok |-> ok, message_id |-> id]

\* The platform call of sendMessageToTelegram: it answers with the id of the
\* message sent, or fails.
Send(ok) ==
  /\ pc = "send"
  /\ \E id \in IF ok THEN MessageIds ELSE {0} :
       /\ calls' = Append(calls,
            SendCall(Transport(request.message),
                     SendParams(Transport(request.message), request.chat, request.message),
                     ok, id))
       /\ returned' = IF ok THEN ReturnedId(id) ELSE ReturnedNull
  /\ pc' = "messageResponse"
  /\ UNCHANGED <<env, waiting, menus, registered, exchange, serviceState, webhookUrl, update, request, fileUrl, outcome, status>>

\* ---------------------------------------------------------------- the router
\* The middleware comparing without asking for a header.
apiKeyAuth_NoPresenceCheck(apiKey) == apiKey = env.mainServerApiKey

\* apiKeyAuth: the header must be present and equal to the configured key.
apiKeyAuth(apiKey) == Truthy(apiKey) /\ apiKey = env.mainServerApiKey

\* router.post("/message-to-telegram") up to its await: the middleware, the
\* check of the body, the call of the service.
PostMessageToTelegram(req) ==
  /\ pc = "idle"
  /\ http' = [present |-> TRUE, apiKey |-> req.apiKey,
              hasChat |-> req.body.hasChat, hasMessage |-> req.body.hasMessage]
  /\ IF ~apiKeyAuth(req.apiKey) \/ ~req.body.hasChat \/ ~req.body.hasMessage
     THEN /\ status' = IF ~apiKeyAuth(req.apiKey) THEN 401 ELSE 400
          /\ responseBody' = TextBody
          /\ pc' = "done"
          /\ UNCHANGED <<env, waiting, menus, registered, serviceState, webhookUrl, update, request, calls, fileUrl,
                         outcome, returned>>
     ELSE /\ CallSendMessageToTelegram(req.body.chat, req.body.message)
          /\ responseBody' = NoBody

\* The route answering success whenever the service did not throw.
MessageResponse_SuccessUnlessThrown ==
  /\ pc = "messageResponse"
  /\ IF returned.kind # "thrown"
     THEN status' = 200 /\ responseBody' = JsonBody(TRUE, returned.id)
     ELSE status' = 500 /\ responseBody' = JsonBody(FALSE, 0)
  /\ pc' = "done"
  /\ UNCHANGED <<env, waiting, menus, registered, http, serviceState, webhookUrl, update, request, calls, fileUrl,
                 outcome, returned>>

\* router.post("/message-to-telegram") after its await: success with the id,
\* or 500 for a null result and for an exception.
MessageResponse ==
  /\ pc = "messageResponse"
  /\ IF returned.kind = "id" /\ returned.id # 0
     THEN status' = 200 /\ responseBody' = JsonBody(TRUE, returned.id)
     ELSE status' = 500 /\ responseBody' = JsonBody(FALSE, 0)
  /\ pc' = "done"
  /\ UNCHANGED <<env, waiting, menus, registered, http, serviceState, webhookUrl, update, request, calls, fileUrl,
                 outcome, returned>>

\* ----------------------------------------------------------- stateful service
\* makeApiCall throws before any request when the client or the token is
\* missing.
StatefulMakeApiCallThrows == ~service.apiClient \/ ~Truthy(service.botToken)

\* The catch clauses of the stateful handlers.
statefulHandleUpdateCatch == "returned"

statefulHandleMessageCatch == "returned"

statefulHandleCallbackQueryCatch == "returned"

StatefulThrownToHandleUpdate == statefulHandleUpdateCatch

StatefulThrownInHandleMessageTry ==
  IF statefulHandleMessageCatch = "returned" THEN "returned"
  ELSE StatefulThrownToHandleUpdate

StatefulThrownInHandleCallbackQueryTry ==
  IF statefulHandleCallbackQueryCatch = "returned" THEN "returned"
  ELSE StatefulThrownToHandleUpdate

\* initialize without the test of the in-progress flag.
Initialize_NoGuard(url) ==
  /\ pc = "idle" /\ variant = "stateful"
  /\ webhookUrl' = url
  /\ pc' = "disconnect"
  /\ returned' = NotReturned
  /\ service' = [service EXCEPT !.isInitializing = TRUE]
  /\ UNCHANGED <<env, waiting, menus, registered, exchange, variant, update, request, calls, fileUrl, outcome, status>>

\* TelegramService.initialize(webhookUrl) up to its first await.
Initialize(url) ==
  /\ pc = "idle" /\ variant = "stateful"
  /\ webhookUrl' = url
  /\ IF service.isInitializing
     THEN /\ pc' = "done"
          /\ returned' = ReturnedBool(FALSE)
          /\ UNCHANGED service
     ELSE /\ pc' = "disconnect"
          /\ returned' = NotReturned
          /\ service' = [service EXCEPT !.isInitializing = TRUE]
  /\ UNCHANGED <<env, waiting, menus, registered, exchange, variant, update, request, calls, fileUrl, outcome, status>>

\* disconnect dropping the client before the webhook is removed.
Disconnect_ClientFirst ==
  /\ pc = "disconnect"
  /\ IF service.isConnected /\ service.apiClient /\ ~StatefulMakeApiCallThrows
     THEN pc' = "deleteWebhook" /\ service' = [service EXCEPT !.apiClient = FALSE]
     ELSE /\ pc' = "configure"
          /\ service' = [service EXCEPT !.isConnected = FALSE, !.apiClient = FALSE]
  /\ UNCHANGED <<env, waiting, menus, registered, exchange, variant, webhookUrl, update, request, calls, fileUrl, outcome,
                 status, returned>>

\* TelegramService.disconnect up to its await: the webhook is removed only
\* when the service is connected.
Disconnect ==
  /\ pc = "disconnect"
  /\ IF service.isConnected /\ service.apiClient /\ ~StatefulMakeApiCallThrows
     THEN pc' = "deleteWebhook" /\ UNCHANGED service
     ELSE /\ pc' = "configure"
          /\ service' = [service EXCEPT !.isConnected = FALSE, !.apiClient = FALSE]
  /\ UNCHANGED <<env, waiting, menus, registered, exchange, variant, webhookUrl, update, request, calls, fileUrl, outcome,
                 status, returned>>

\* deleteWebhook whose failure ends the initialize.
DeleteWebhook_Abort(ok) ==
  /\ pc = "deleteWebhook"
  /\ calls' = Append(calls, ApiCall("deleteWebhook", [drop_pending_updates |-> TRUE], ok))
  /\ registered' = IF ok THEN Undefined ELSE registered
  /\ IF ok
     THEN /\ service' = [service EXCEPT !.isConnected = FALSE, !.apiClient = FALSE]
          /\ pc' = "configure"
          /\ UNCHANGED returned
     ELSE /\ service' = [service EXCEPT !.isInitializing = FALSE]
          /\ pc' = "done"
          /\ returned' = ReturnedBool(FALSE)
  /\ UNCHANGED <<env, waiting, menus, exchange, variant, webhookUrl, update, request, fileUrl, outcome, status>>

\* The deleteWebhook of disconnect; its failure is logged and swallowed. Once
\* the call returns the platform holds no webhook.
DeleteWebhook(ok) ==
  /\ pc = "deleteWebhook"
  /\ calls' = Append(calls, ApiCall("deleteWebhook", [drop_pending_updates |-> TRUE], ok))
  /\ registered' = IF ok THEN Undefined ELSE registered
  /\ service' = [service EXCEPT !.isConnected = FALSE, !.apiClient = FALSE]
  /\ pc' = "configure"
  /\ UNCHANGED <<env, waiting, menus, exchange, variant, webhookUrl, update, request, fileUrl, outcome, status,
                 returned>>

\* initialize after disconnect: the configuration is loaded and checked, the
\* client is created.
Configure ==
  /\ pc = "configure"
  /\ LET loaded == [service EXCEPT !.botToken = OrNull(env.botToken),
                                   !.groupId = OrNull(env.groupId),
                                   !.webhookUrl = OrNull(webhookUrl)]
     IN IF ~Truthy(loaded.botToken) \/ ~Truthy(loaded.groupId) \/ ~Truthy(loaded.webhookUrl)
        THEN /\ service' = [loaded EXCEPT !.isInitializing = FALSE]
             /\ returned' = ReturnedBool(FALSE)
             /\ pc' = "done"
        ELSE /\ service' = [loaded EXCEPT !.baseUrl = <<"b","o","t">> \o loaded.botToken,
                                          !.apiClient = TRUE]
             /\ pc' = "getMe"
             /\ UNCHANGED returned
  /\ UNCHANGED <<env, waiting, menus, registered, exchange, variant, webhookUrl, update, request, calls, fileUrl, outcome, status>>

\* getMe whose failure leaves the in-progress flag as it is.
GetMe_KeepFlag(answer) ==
  /\ pc = "getMe"
  /\ calls' = Append(calls, ApiCall("getMe", <<>>, answer # "failed"))
  /\ IF answer = "ok"
     THEN pc' = "setWebhook" /\ UNCHANGED <<service, returned>>
     ELSE /\ service' = [service EXCEPT !.isConnected = FALSE]
          /\ returned' = ReturnedBool(FALSE)
          /\ pc' = "done"
  /\ UNCHANGED <<env, waiting, menus, registered, exchange, variant, webhookUrl, update, request, fileUrl, outcome, status>>

\* The getMe of initialize: the platform answers ok, answers not ok, or the
\* call fails.
GetMe(answer) ==
  /\ pc = "getMe"
  /\ calls' = Append(calls, ApiCall("getMe", <<>>, answer # "failed"))
  /\ IF answer = "ok"
     THEN pc' = "setWebhook" /\ UNCHANGED <<service, returned>>
     ELSE /\ service' = [service EXCEPT !.isConnected = FALSE, !.isInitializing = FALSE]
          /\ returned' = ReturnedBool(FALSE)
          /\ pc' = "done"
  /\ UNCHANGED <<env, waiting, menus, registered, exchange, variant, webhookUrl, update, request, fileUrl, outcome, status>>

\* setWebhook taken for done whenever the call returned.
SetWebhook_IgnoreAnswer(answer) ==
  /\ pc = "setWebhook"
  /\ calls' = Append(calls,
       ApiCall("setWebhook",
               [url |-> service.webhookUrl,
                allowed_updates |-> <<"message", "callback_query">>,
                drop_pending_updates |-> TRUE], answer # "failed"))
  /\ registered' = IF answer = "ok" THEN service.webhookUrl ELSE registered
  /\ service' = [service EXCEPT !.isConnected = (answer # "failed"), !.isInitializing = FALSE]
  /\ returned' = ReturnedBool(answer # "failed")
  /\ pc' = "done"
  /\ UNCHANGED <<env, waiting, menus, exchange, variant, webhookUrl, update, request, fileUrl, outcome, status>>

\* The setWebhook of initialize and the end of initialize. Once the platform
\* answers ok it holds the URL.
SetWebhook(answer) ==
  /\ pc = "setWebhook"
  /\ calls' = Append(calls,
       ApiCall("setWebhook",
               [url |-> service.webhookUrl,
                allowed_updates |-> <<"message", "callback_query">>,
                drop_pending_updates |-> TRUE], answer # "failed"))
  /\ registered' = IF answer = "ok" THEN service.webhookUrl ELSE registered
  /\ service' = [service EXCEPT !.isConnected = (answer = "ok"), !.isInitializing = FALSE]
  /\ returned' = ReturnedBool(answer = "ok")
  /\ pc' = "done"
  /\ UNCHANGED <<env, waiting, menus, exchange, variant, webhookUrl, update, request, fileUrl, outcome, status>>

\* TelegramService.handleUpdate of the stateful service.
StatefulHandleUpdate ==
  /\ pc = "handleUpdate" /\ variant = "stateful"
  /\ IF update.kind = "undefined" THEN Settle(StatefulThrownToHandleUpdate)
     ELSE IF update.kind = "message"
          THEN pc' = "Stateful.handleMessage" /\ UNCHANGED outcome
     ELSE IF update.kind = "callback_query"
          THEN pc' = "Stateful.handleCallbackQuery" /\ UNCHANGED outcome
     ELSE Settle("returned")
  /\ UNCHANGED <<env, waiting, menus, registered, exchange, serviceState, webhookUrl, update, request, calls, fileUrl, status,
                 returned>>

\* TelegramService.handleMessage of the stateful service: the group id is the
\* one initialize loaded.
StatefulHandleMessage ==
  /\ pc = "Stateful.handleMessage"
  /\ IF ~update.chat.present THEN Settle(StatefulThrownToHandleUpdate)
     ELSE IF NumberToString(update.chat.id) # service.groupId THEN Settle("returned")
     ELSE IF ~Truthy(MessageChatId(update)) /\ IsReply(update) THEN Settle("returned")
     ELSE IF IsCommand(update) THEN pc' = "Stateful.handleCommand" /\ UNCHANGED outcome
     ELSE IF IsReply(update) /\ Truthy(MessageChatId(update))
          THEN pc' = "Stateful.handleReplyMessage" /\ UNCHANGED outcome
     ELSE Settle("returned")
  /\ UNCHANGED <<env, waiting, menus, registered, exchange, serviceState, webhookUrl, update, request, calls, fileUrl, status,
                 returned>>

\* TelegramService.handleCommand of the stateful service: /start only.
StatefulHandleCommand ==
  /\ pc = "Stateful.handleCommand"
  /\ IF ToLowerCase(FirstWord(update.text)) = <<"/","s","t","a","r","t">>
     THEN pc' = "Stateful.commandReply" /\ UNCHANGED outcome
     ELSE Settle("returned")
  /\ UNCHANGED <<env, waiting, menus, registered, exchange, serviceState, webhookUrl, update, request, calls, fileUrl, status,
                 returned>>

\* The sendMessage of the stateful handleCommand.
StatefulCommandReply(ok) ==
  /\ pc = "Stateful.commandReply"
  /\ IF StatefulMakeApiCallThrows
     THEN Settle(StatefulThrownInHandleMessageTry) /\ UNCHANGED calls
     ELSE /\ calls' = Append(calls,
               ApiCall("sendMessage",
                       [chat_id |-> NumberToString(update.chat.id),
                        text |-> StatefulStatusText, reply_markup |-> <<>>], ok))
          /\ Settle(IF ok THEN "returned" ELSE StatefulThrownInHandleMessageTry)
  /\ UNCHANGED <<env, waiting, menus, registered, exchange, serviceState, webhookUrl, update, request, fileUrl, status, returned>>

\* TelegramService.handleReplyMessage of the stateful service up to its first
\* await.
StatefulHandleReplyMessage ==
  /\ pc = "Stateful.handleReplyMessage"
  /\ IF ~update.from.present THEN pc' = "Stateful.replyErrorNotice"
     ELSE IF Truthy(update.text) THEN pc' = "Stateful.replyForward"
     ELSE IF FileId(update) # "" THEN pc' = "Stateful.replyGetFile"
     ELSE pc' = "Stateful.replyForward"
  /\ fileUrl' = Null
  /\ UNCHANGED <<env, waiting, menus, registered, exchange, serviceState, webhookUrl, update, request, calls, outcome, status,
                 returned>>

\* The URL the stateful getFileUrl builds.
StatefulResolvedUrl(fileId) ==
  <<"f","i","l","e","/","b","o","t">> \o Str(service.botToken) \o <<"/", fileId>>

\* TelegramService.getFileUrl of the stateful service; an exception of
\* makeApiCall gives null.
StatefulReplyGetFile(answer) ==
  /\ pc = "Stateful.replyGetFile"
  /\ IF StatefulMakeApiCallThrows
     THEN fileUrl' = Null /\ UNCHANGED calls
     ELSE /\ calls' = Append(calls,
               ApiCall("getFile", [file_id |-> FileId(update)], answer # "failed"))
          /\ fileUrl' = IF answer = "ok" THEN StatefulResolvedUrl(FileId(update)) ELSE Null
  /\ pc' = "Stateful.replyForward"
  /\ UNCHANGED <<env, waiting, menus, registered, exchange, serviceState, webhookUrl, update, request, outcome, status, returned>>

\* The forward of the stateful handleReplyMessage.
StatefulReplyForward(ok) ==
  /\ pc = "Stateful.replyForward"
  /\ calls' = Append(calls,
       Forward("admin_message",
               [chatId |-> MessageChatId(update),
                message |-> [sender |-> "admin",
                             senderInfo |-> AdminInfo(update.from),
                             content |-> ReplyContent(update, fileUrl),
                             timestamp |-> "now"]], ok))
  /\ IF ok THEN Settle("returned")
     ELSE pc' = "Stateful.replyErrorNotice" /\ UNCHANGED outcome
  /\ UNCHANGED <<env, waiting, menus, registered, exchange, serviceState, webhookUrl, update, request, fileUrl, status, returned>>

\* The catch clause of the stateful handleReplyMessage.
StatefulReplyErrorNotice(ok) ==
  /\ pc = "Stateful.replyErrorNotice"
  /\ IF StatefulMakeApiCallThrows
     THEN Settle(StatefulThrownInHandleMessageTry) /\ UNCHANGED calls
     ELSE /\ calls' = Append(calls,
               ApiCall("sendMessage",
                       [chat_id |-> service.groupId,
                        text |-> ErrorNotice(MessageChatId(update)),
                        reply_markup |-> <<>>], ok))
          /\ Settle(IF ok THEN "returned" ELSE StatefulThrownInHandleMessageTry)
  /\ UNCHANGED <<env, waiting, menus, registered, exchange, serviceState, webhookUrl, update, request, fileUrl, status, returned>>

\* The event table of the stateful handleCallbackQuery: close and assign.
StatefulEventType(u) ==
  IF ActionType(u) = CloseType THEN "chat_close"
  ELSE IF ActionType(u) = AssignType THEN "chat_assign"
  ELSE ""

\* TelegramService.handleCallbackQuery of the stateful service up to its first
\* await; action?.split makes a missing data field a plain return.
StatefulHandleCallbackQuery ==
  /\ pc = "Stateful.handleCallbackQuery"
  /\ IF update.data = Undefined THEN Settle("returned")
     ELSE IF ~Truthy(CallbackChatId(update)) THEN Settle("returned")
     ELSE IF ~update.from.present THEN Settle(StatefulThrownInHandleCallbackQueryTry)
     ELSE IF ActionType(update) = QuickmsgType
          THEN /\ pc' = IF Truthy(ReplyText(update)) THEN "Stateful.quickForward"
                        ELSE "Stateful.answer"
               /\ UNCHANGED outcome
     ELSE IF StatefulEventType(update) # "" THEN pc' = "Stateful.answer" /\ UNCHANGED outcome
     ELSE Settle("returned")
  /\ UNCHANGED <<env, waiting, menus, registered, exchange, serviceState, webhookUrl, update, request, calls, fileUrl, status,
                 returned>>

\* The forward of the stateful quickmsg branch.
StatefulQuickForward(ok) ==
  /\ pc = "Stateful.quickForward"
  /\ calls' = Append(calls,
       Forward("admin_message",
               [chatId |-> CallbackChatId(update),
                message |-> [sender |-> "admin",
                             senderInfo |-> AdminInfo(update.from),
                             content |-> [type |-> "text", text |-> ReplyText(update)],
                             timestamp |-> "now"]], ok))
  /\ IF ok THEN pc' = "Stateful.answer" /\ UNCHANGED outcome
     ELSE Settle(StatefulThrownInHandleCallbackQueryTry)
  /\ UNCHANGED <<env, waiting, menus, registered, exchange, serviceState, webhookUrl, update, request, fileUrl, status, returned>>

\* answerCallbackQuery of the stateful service.
StatefulAnswer(ok) ==
  /\ pc = "Stateful.answer"
  /\ IF StatefulMakeApiCallThrows
     THEN Settle(StatefulThrownInHandleCallbackQueryTry) /\ UNCHANGED calls
     ELSE /\ calls' = Append(calls,
               ApiCall("answerCallbackQuery",
                       [callback_query_id |-> "q1", text |-> AnswerText(update)], ok))
          /\ IF ~ok THEN Settle(StatefulThrownInHandleCallbackQueryTry)
             ELSE IF ActionType(update) = QuickmsgType THEN Settle("returned")
             ELSE pc' = "Stateful.eventForward" /\ UNCHANGED outcome
  /\ UNCHANGED <<env, waiting, menus, registered, exchange, serviceState, webhookUrl, update, request, fileUrl, status, returned>>

\* The forward of close and assign in the stateful service.
StatefulEventForward(ok) ==
  /\ pc = "Stateful.eventForward"
  /\ calls' = Append(calls,
       Forward(StatefulEventType(update),
               [chatId |-> CallbackChatId(update),
                admin |-> AdminInfo(update.from),
                timestamp |-> "now"], ok))
  /\ Settle(IF ok THEN "returned" ELSE StatefulThrownInHandleCallbackQueryTry)
  /\ UNCHANGED <<env, waiting, menus, registered, exchange, serviceState, webhookUrl, update, request, fileUrl, status, returned>>

\* The two buttons of the stateful sendMessageToTelegram.
statefulInlineKeyboard(chat) ==
  <<ActionToken(AssignType, chat.chatId), ActionToken(CloseType, chat.chatId)>>

\* TelegramService.sendMessageToTelegram of the stateful service up to its
\* await.
StatefulSendMessageToTelegram ==
  /\ pc = "sendMessageToTelegram" /\ variant = "stateful"
  /\ IF ~service.isConnected \/ ~Truthy(service.groupId)
     THEN pc' = "messageResponse" /\ returned' = ReturnedNull
     ELSE IF Transport(request.message) = ""
          THEN pc' = "messageResponse" /\ returned' = ReturnedNull
     ELSE pc' = "Stateful.send" /\ UNCHANGED returned
  /\ UNCHANGED <<env, waiting, menus, registered, exchange, serviceState, webhookUrl, update, request, calls, fileUrl, outcome,
                 status>>

StatefulSendParams(method, chat, message) ==
  LET messageText == formatMessageForTelegram(chat, message)
  IN IF method = "sendMessage"
     THEN [chat_id |-> service.groupId, text |-> messageText,
           reply_markup |-> statefulInlineKeyboard(chat)]
     ELSE IF method = "sendPhoto"
     THEN [chat_id |-> service.groupId, photo |-> message.content.fileUrl,
           caption |-> messageText, reply_markup |-> statefulInlineKeyboard(chat)]
     ELSE [chat_id |-> service.groupId, document |-> message.content.fileUrl,
           caption |-> messageText, reply_markup |-> statefulInlineKeyboard(chat)]

\* The platform call of the stateful sendMessageToTelegram marking the service
\* disconnected when the call fails.
StatefulSend_DisconnectOnFailure(ok) ==
  /\ pc = "Stateful.send"
  /\ IF StatefulMakeApiCallThrows
     THEN returned' = ReturnedNull /\ UNCHANGED calls
     ELSE \E id \in IF ok THEN MessageIds ELSE {0} :
            /\ calls' = Append(calls,
                 SendCall(Transport(request.message),
                          StatefulSendParams(Transport(request.message), request.chat,
                                             request.message), ok, id))
            /\ returned' = IF ok THEN ReturnedId(id) ELSE ReturnedNull
  /\ service' = [service EXCEPT !.isConnected = service.isConnected /\ ok]
  /\ pc' = "messageResponse"
  /\ UNCHANGED <<env, waiting, menus, registered, exchange, variant, webhookUrl, update, request, fileUrl, outcome, status>>

\* The platform call of the stateful sendMessageToTelegram.
StatefulSend(ok) ==
  /\ pc = "Stateful.send"
  /\ IF StatefulMakeApiCallThrows
     THEN returned' = ReturnedNull /\ UNCHANGED calls
     ELSE \E id \in IF ok THEN MessageIds ELSE {0} :
            /\ calls' = Append(calls,
                 SendCall(Transport(request.message),
                          StatefulSendParams(Transport(request.message), request.chat,
                                             request.message), ok, id))
            /\ returned' = IF ok THEN ReturnedId(id) ELSE ReturnedNull
  /\ pc' = "messageResponse"
  /\ UNCHANGED <<env, waiting, menus, registered, exchange, serviceState, webhookUrl, update, request, fileUrl, outcome, status>>

\* The request is over: its locals go out of scope and the next one may come.
Finish ==
  /\ pc = "done"
  /\ pc' = "idle"
  /\ update' = NoUpdate
  /\ request' = NoRequest
  /\ calls' = <<>>
  /\ fileUrl' = Undefined
  /\ outcome' = "none"
  /\ status' = 0
  /\ returned' = NotReturned
  /\ webhookUrl' = Undefined
  /\ http' = NoHttp
  /\ responseBody' = NoBody
  /\ UNCHANGED <<env, waiting, menus, registered, serviceState>>

\* The steps of the request being served, from one await to the next.
Continue ==
  \/ HandleUpdate
  \/ HandleMessage
  \/ HandleCommand
  \/ \E ok \in BOOLEAN : CommandReply(ok)
  \/ HandleReplyMessage
  \/ \E answer \in {"ok", "not ok", "failed"} : ReplyGetFile(answer)
  \/ \E ok \in BOOLEAN : ReplyForward(ok)
  \/ \E ok \in BOOLEAN : ReplyErrorNotice(ok)
  \/ HandleCallbackQuery
  \/ \E ok \in BOOLEAN : QuickForward(ok)
  \/ \E ok \in BOOLEAN : Answer(ok)
  \/ \E ok \in BOOLEAN : EventForward(ok)
  \/ Respond
  \/ MessageResponse
  \/ SendMessageToTelegram
  \/ \E ok \in BOOLEAN : Send(ok)
  \/ Disconnect
  \/ \E ok \in BOOLEAN : DeleteWebhook(ok)
  \/ Configure
  \/ \E answer \in {"ok", "not ok", "failed"} : GetMe(answer)
  \/ \E answer \in {"ok", "not ok", "failed"} : SetWebhook(answer)
  \/ StatefulHandleUpdate
  \/ StatefulHandleMessage
  \/ StatefulHandleCommand
  \/ \E ok \in BOOLEAN : StatefulCommandReply(ok)
  \/ StatefulHandleReplyMessage
  \/ \E answer \in {"ok", "not ok", "failed"} : StatefulReplyGetFile(answer)
  \/ \E ok \in BOOLEAN : StatefulReplyForward(ok)
  \/ \E ok \in BOOLEAN : StatefulReplyErrorNotice(ok)
  \/ StatefulHandleCallbackQuery
  \/ \E ok \in BOOLEAN : StatefulQuickForward(ok)
  \/ \E ok \in BOOLEAN : StatefulAnswer(ok)
  \/ \E ok \in BOOLEAN : StatefulEventForward(ok)
  \/ StatefulSendMessageToTelegram
  \/ \E ok \in BOOLEAN : StatefulSend(ok)
  \/ Finish

\* One request at a time: the next one arrives when the last one is over.
Next ==
  \/ pc = "idle" /\ \E u \in Updates : PostWebhook(u)
  \/ pc = "idle" /\ \E req \in HttpRequests : PostMessageToTelegram(req)
  \/ pc = "idle" /\ \E url \in WebhookUrls : Initialize(url)
  \/ Continue

Spec == Init /\ [][Next]_vars

\* ------------------------------------------------------- concurrent requests
\* Two requests are served on the one thread of the runtime. A request runs
\* from the event that starts or resumes it to its next await of a network
\* call; only there may the other request run. The label of a call stands for
\* "the call is issued and its answer awaited", and the action of the label
\* for the arrival of the answer and what the handler does with it up to the
\* next call.
AwaitLabels ==
  {"commandReply", "replyGetFile", "replyForward", "replyErrorNotice", "quickForward",
   "answer", "eventForward", "send"}

\* The awaits of the initialize of part_004.
NotifyingAwaitLabels ==
  {"Notifying.disconnectNotice", "Notifying.deleteWebhook", "Notifying.getMe",
   "Notifying.setWebhook", "Notifying.connectedNotice"}

AwaitPoints ==
  AwaitLabels \cup {"Stateful." \o l : l \in AwaitLabels}
    \cup {"deleteWebhook", "getMe", "setWebhook", "idle"}
    \cup NotifyingAwaitLabels

\* The switch with the update kept in one place shared by the requests.
Resume_SharedUpdate ==
  /\ pc \in AwaitPoints
  /\ ~(pc = "idle" /\ waiting.pc = "idle")
  /\ waiting' = Locals
  /\ pc' = waiting.pc
  /\ update' = IF waiting.update.kind = "none" THEN waiting.update ELSE update
  /\ request' = waiting.request
  /\ calls' = waiting.calls
  /\ fileUrl' = waiting.fileUrl
  /\ outcome' = waiting.outcome
  /\ status' = waiting.status
  /\ returned' = waiting.returned
  /\ webhookUrl' = waiting.webhookUrl
  /\ http' = waiting.http
  /\ responseBody' = waiting.responseBody
  /\ UNCHANGED <<env, menus, registered, serviceState>>

\* The event loop turns to the other request: the locals of the running one
\* wait, the fields of the service and the environment are shared.
Resume ==
  /\ pc \in AwaitPoints
  /\ ~(pc = "idle" /\ waiting.pc = "idle")
  /\ waiting' = Locals
  /\ pc' = waiting.pc
  /\ update' = waiting.update
  /\ request' = waiting.request
  /\ calls' = waiting.calls
  /\ fileUrl' = waiting.fileUrl
  /\ outcome' = waiting.outcome
  /\ status' = waiting.status
  /\ returned' = waiting.returned
  /\ webhookUrl' = waiting.webhookUrl
  /\ http' = waiting.http
  /\ responseBody' = waiting.responseBody
  /\ UNCHANGED <<env, menus, registered, serviceState>>

\* The deliveries, requests and environments of the concurrent runs: two
\* operators and two conversations.
GroupRef == [present |-> TRUE, id |-> GroupChatId]

Operator7 == [present |-> TRUE, id |-> 7, first_name |-> <<"S","a","m">>, last_name |-> Undefined]

Operator42 == [present |-> TRUE, id |-> 42, first_name |-> <<"S","a","m">>, last_name |-> <<"R">>]

Quoting(c) ==
  [present |-> TRUE, caption |-> Undefined,
   text |-> formatMessageForTelegram(PlainChat(c, <<"A","l","i">>), PlainMessage)]

PhotoMedia == [photo |-> <<"small", "large">>, document |-> NoDocument, caption |-> <<"c","a","p">>]

ReplyByOperator7 ==
  Update("message", GroupRef, Operator7, <<"h","e","l","l","o">>, Quoting(<<"a">>),
         NoMedia, Undefined)

PhotoReplyByOperator42 ==
  Update("message", GroupRef, Operator42, Undefined, Quoting(<<"Z","9">>),
         PhotoMedia, Undefined)

StartByOperator7 ==
  Update("message", GroupRef, Operator7, <<"/","s","t","a","r","t">>, NoReply,
         NoMedia, Undefined)

CloseByOperator7 ==
  Update("callback_query", GroupRef, Operator7, Undefined, NoReply, NoMedia,
         ActionToken(CloseType, <<"a">>))

QuickmsgByOperator42 ==
  Update("callback_query", GroupRef, Operator42, Undefined, NoReply, NoMedia,
         ActionToken(QuickmsgType, <<"Z","9">>) \o <<"_","3">>)

SampleUpdates ==
  {ReplyByOperator7, PhotoReplyByOperator42, StartByOperator7, CloseByOperator7,
   QuickmsgByOperator42}

SampleRequests ==
  {[apiKey |-> ApiKeyText, body |-> b] : b \in SampleBodies}

InitConcurrent ==
  /\ Init
  /\ env \in StatefulEnvs

NextConcurrent ==
  \/ pc = "idle" /\ \E u \in SampleUpdates : PostWebhook(u)
  \/ pc = "idle" /\ \E req \in SampleRequests : PostMessageToTelegram(req)
  \/ pc = "idle" /\ \E url \in WebhookUrls : Initialize(url)
  \/ Continue
  \/ Resume

SpecConcurrent == InitConcurrent /\ [][NextConcurrent]_vars

\* --------------------------------------------- the service that keeps the chats
\* TelegramService of src/unnamed/part_006: the service that stores the chats
\* itself and offers quick replies in two steps. Of its handleCallbackQuery the
\* quick_ and quickmsg_ branches are modelled, and the deliveries are presses
\* of quick-reply buttons.
\* The service after a successful initialize.
ConnectedService ==
  [ apiClient |-> TRUE, groupId |-> GroupIdText, isConnected |-> TRUE,
    botToken |-> BotTokenText, baseUrl |-> <<"b","o","t">> \o BotTokenText,
    isInitializing |-> FALSE, webhookUrl |-> <<"h","t","t","p","s",":","/","/","h">> ]

PersistingMakeApiCallThrows == ~service.apiClient \/ ~Truthy(service.botToken)

QuickType == <<"q","u","i","c","k">>

PersistingNoticeNotFound == <<"FA:canned-reply-not-found">>
PersistingNoticeNoChat   == <<"FA:chat-not-found">>
PersistingNoticeSent     == <<"FA:message-sent">>
MenuText                 == <<"FA:choose-a-canned-reply">>

\* The menu with its indices counted from one.
QuickReplyMenu_OneBased(chatId) ==
  [ for    |-> chatId,
    tokens |-> [idx \in 1..Len(quickReplies) |->
                  ActionToken(QuickmsgType, chatId) \o <<"_">> \o NumberToString(idx)] ]

\* this.quickReplies.map((reply, idx) => [{callback_data:
\* `quickmsg_${chatId}_${idx}`}]): one row of one button per canned reply.
QuickReplyMenu(chatId) ==
  [ for    |-> chatId,
    tokens |-> [idx \in 1..Len(quickReplies) |->
                  ActionToken(QuickmsgType, chatId) \o <<"_">> \o NumberToString(idx - 1)] ]

\* The newMessage of the quickmsg_ branch.
QuickMessage(u) ==
  [ sender |-> "admin",
    senderInfo |-> [name |-> AdminInfo(u.from).name, avatar |-> Null],
    content |-> [type |-> "text", text |-> ReplyText(u)],
    timestamp |-> "now" ]

\* A call of the chat store or of the socket service.
StoreCall(method, chatId, message, ok) ==
  [api |-> method, chatId |-> chatId, message |-> message, ok |-> ok]

\* handleUpdate: a callback query goes to handleCallbackQuery, another body
\* is left alone.
PersistingHandleUpdate ==
  /\ pc = "handleUpdate" /\ variant = "persisting"
  /\ update.kind \in {"callback_query", "other"}
  /\ IF update.kind = "callback_query"
     THEN pc' = "Persisting.handleCallbackQuery" /\ UNCHANGED outcome
     ELSE Settle("returned")
  /\ UNCHANGED <<env, waiting, menus, registered, exchange, serviceState, webhookUrl, update, request, calls,
                 fileUrl, status, returned>>

\* handleCallbackQuery up to its first await, for quick_ and quickmsg_ tokens;
\* whatever is thrown inside is caught and logged.
PersistingHandleCallbackQuery ==
  /\ pc = "Persisting.handleCallbackQuery"
  /\ \/ ~Truthy(update.data) \/ ~Truthy(CallbackChatId(update))
     \/ StartsWith(update.data, QuickmsgType \o <<"_">>)
     \/ StartsWith(update.data, QuickType \o <<"_">>)
  /\ IF ~Truthy(update.data) \/ ~Truthy(CallbackChatId(update)) THEN Settle("returned")
     ELSE IF StartsWith(update.data, QuickmsgType \o <<"_">>)
          THEN /\ pc' = IF Truthy(ReplyText(update)) THEN "Persisting.findChat"
                        ELSE "Persisting.answerNotFound"
               /\ UNCHANGED outcome
     ELSE IF update.chat.present THEN pc' = "Persisting.menu" /\ UNCHANGED outcome
     ELSE Settle("returned")
  /\ UNCHANGED <<env, waiting, menus, registered, exchange, serviceState, webhookUrl, update, request, calls,
                 fileUrl, status, returned>>

\* answerCallbackQuery(callbackQuery.id, text), after which the handler goes
\* on at `next` ("" for its end).
PersistingAnswerCallbackQuery(text, ok, next) ==
  /\ IF PersistingMakeApiCallThrows
     THEN Settle("returned") /\ UNCHANGED calls
     ELSE /\ calls' = Append(calls,
               ApiCall("answerCallbackQuery",
                       [callback_query_id |-> "q1", text |-> text], ok))
          /\ IF ok /\ next # "" THEN pc' = next /\ UNCHANGED outcome
             ELSE Settle("returned")
  /\ UNCHANGED <<env, waiting, menus, registered, exchange, serviceState, webhookUrl, update, request,
                 fileUrl, status, returned>>

\* No canned reply has the index of the token.
PersistingAnswerNotFound(ok) ==
  /\ pc = "Persisting.answerNotFound"
  /\ PersistingAnswerCallbackQuery(PersistingNoticeNotFound, ok, "")

\* Chat.findOne({chatId}): the chat, none, or an error of the store.
PersistingFindChat(answer) ==
  /\ pc = "Persisting.findChat"
  /\ calls' = Append(calls,
       StoreCall("Chat.findOne", CallbackChatId(update), Null, answer # "failed"))
  /\ IF answer = "none" THEN pc' = "Persisting.answerNoChat" /\ UNCHANGED outcome
     ELSE IF answer = "found" /\ update.from.present
          THEN pc' = "Persisting.save" /\ UNCHANGED outcome
     ELSE Settle("returned")
  /\ UNCHANGED <<env, waiting, menus, registered, exchange, serviceState, webhookUrl, update, request,
                 fileUrl, status, returned>>

PersistingAnswerNoChat(ok) ==
  /\ pc = "Persisting.answerNoChat"
  /\ PersistingAnswerCallbackQuery(PersistingNoticeNoChat, ok, "")

\* chat.save() with the new message pushed; once it is saved the message goes
\* to the user through the socket service.
PersistingSave(ok) ==
  /\ pc = "Persisting.save"
  /\ calls' = calls
       \o << StoreCall("chat.save", CallbackChatId(update), QuickMessage(update), ok) >>
       \o (IF ok
           THEN << StoreCall("socketService.sendMessageToUser", CallbackChatId(update),
                             QuickMessage(update), TRUE) >>
           ELSE <<>>)
  /\ IF ok THEN pc' = "Persisting.answerSent" /\ UNCHANGED outcome
     ELSE Settle("returned")
  /\ UNCHANGED <<env, waiting, menus, registered, exchange, serviceState, webhookUrl, update, request,
                 fileUrl, status, returned>>

PersistingAnswerSent(ok) ==
  /\ pc = "Persisting.answerSent"
  /\ PersistingAnswerCallbackQuery(PersistingNoticeSent, ok,
                                   IF update.chat.present THEN "Persisting.editMarkup" ELSE "")

\* editMessageReplyMarkup and editMessageText of the pressed menu.
PersistingEdit(method, ok, next) ==
  /\ IF PersistingMakeApiCallThrows
     THEN Settle("returned") /\ UNCHANGED calls
     ELSE /\ calls' = Append(calls,
               ApiCall(method,
                       [chat_id |-> NumberToString(update.chat.id),
                        reply_markup |-> << <<"t","a","g","_">> \o CallbackChatId(update),
                                            ActionToken(AssignType, CallbackChatId(update)),
                                            ActionToken(CloseType, CallbackChatId(update)) >>],
                       ok))
          /\ IF ok /\ next # "" THEN pc' = next /\ UNCHANGED outcome
             ELSE Settle("returned")
  /\ UNCHANGED <<env, waiting, menus, registered, exchange, serviceState, webhookUrl, update, request,
                 fileUrl, status, returned>>

PersistingEditMarkup(ok) ==
  /\ pc = "Persisting.editMarkup"
  /\ PersistingEdit("editMessageReplyMarkup", ok, "Persisting.editText")

PersistingEditText(ok) ==
  /\ pc = "Persisting.editText"
  /\ PersistingEdit("editMessageText", ok, "")

\* The quick_ branch: the menu is sent to the chat of the pressed message;
\* once sent, the group shows it.
PersistingMenu(ok) ==
  /\ pc = "Persisting.menu"
  /\ IF PersistingMakeApiCallThrows
     THEN Settle("returned") /\ UNCHANGED <<calls, menus>>
     ELSE /\ calls' = Append(calls,
               ApiCall("sendMessage",
                       [chat_id |-> NumberToString(update.chat.id), text |-> MenuText,
                        reply_markup |-> QuickReplyMenu(CallbackChatId(update)).tokens], ok))
          /\ menus' = IF ok THEN menus \cup {QuickReplyMenu(CallbackChatId(update))} ELSE menus
          /\ IF ok THEN pc' = "Persisting.answerMenu" /\ UNCHANGED outcome
             ELSE Settle("returned")
  /\ UNCHANGED <<env, waiting, registered, exchange, serviceState, webhookUrl, update, request,
                 fileUrl, status, returned>>

\* answerCallbackQuery(callbackQuery.id) of the quick_ branch: no text.
PersistingAnswerMenu(ok) ==
  /\ pc = "Persisting.answerMenu"
  /\ PersistingAnswerCallbackQuery(Undefined, ok, "")

\* The conversations of these runs; one id holds the delimiter of the tokens.
MenuChatIds == {<<"a">>, <<"Z","9">>, <<"a","_","a">>}

\* Presses of the "quick reply" button sendMessageToTelegram built for a
\* chat, with and without the pressed message in the callback query.
QuickPresses ==
  { Update("callback_query", ch, f, Undefined, NoReply, NoMedia, ActionToken(QuickType, c)) :
      ch \in {GroupRef, NoChat}, f \in {Operator7, Operator42}, c \in MenuChatIds }

\* Presses that no menu offers: an index past the list, a press without a
\* sender, a body that is no update of the bot.
StrayPresses ==
  { Update("callback_query", GroupRef, Operator7, Undefined, NoReply, NoMedia,
           ActionToken(QuickmsgType, <<"a">>) \o <<"_","9">>),
    Update("callback_query", GroupRef, NoFrom, Undefined, NoReply, NoMedia,
           ActionToken(QuickmsgType, <<"a">>) \o <<"_","0">>),
    OtherUpdate }

\* The press of button i of a menu the group shows.
MenuPress(m, i, ch, f) ==
  PostWebhook(Update("callback_query", ch, f, Undefined, NoReply, NoMedia, m.tokens[i]))

InitPersisting ==
  /\ env = [botToken |-> BotTokenText, groupId |-> GroupIdText, mainServerApiKey |-> ApiKeyText]
  /\ pc = "idle"
  /\ update = NoUpdate
  /\ request = NoRequest
  /\ calls = <<>>
  /\ fileUrl = Undefined
  /\ outcome = "none"
  /\ status = 0
  /\ returned = NotReturned
  /\ variant = "persisting"
  /\ service \in {NewService, ConnectedService}
  /\ webhookUrl = Undefined
  /\ http = NoHttp
  /\ responseBody = NoBody
  /\ waiting = IdleLocals
  /\ menus = {}
  /\ registered = Undefined

NextPersisting ==
  \/ pc = "idle" /\ \E u \in QuickPresses \cup StrayPresses : PostWebhook(u)
  \/ pc = "idle" /\ \E m \in menus, i \in 1..Len(quickReplies),
                       ch \in {GroupRef, NoChat}, f \in {Operator7, Operator42} :
                      MenuPress(m, i, ch, f)
  \/ PersistingHandleUpdate
  \/ PersistingHandleCallbackQuery
  \/ \E ok \in BOOLEAN : PersistingAnswerNotFound(ok)
  \/ \E answer \in {"found", "none", "failed"} : PersistingFindChat(answer)
  \/ \E ok \in BOOLEAN : PersistingAnswerNoChat(ok)
  \/ \E ok \in BOOLEAN : PersistingSave(ok)
  \/ \E ok \in BOOLEAN : PersistingAnswerSent(ok)
  \/ \E ok \in BOOLEAN : PersistingEditMarkup(ok)
  \/ \E ok \in BOOLEAN : PersistingEditText(ok)
  \/ \E ok \in BOOLEAN : PersistingMenu(ok)
  \/ \E ok \in BOOLEAN : PersistingAnswerMenu(ok)
  \/ Respond
  \/ Finish

SpecPersisting == InitPersisting /\ [][NextPersisting]_vars

\* ------------------------------------- the service that announces its connection
\* TelegramService of src/unnamed/part_004: initialize and disconnect tell the
\* control group that the bot connects and disconnects. Its lifecycle is
\* modelled: initialize, disconnect and the platform calls they make.
ConnectedText     == <<"FA:bot-connected">>
DisconnectingText == <<"FA:bot-disconnecting">>

\* sendMessage(this.groupId, text) of the lifecycle notices.
NoticeCall(text, ok) ==
  ApiCall("sendMessage", [chat_id |-> service.groupId, text |-> text, reply_markup |-> <<>>], ok)

\* this.isConnected = false; this.apiClient = null
Cleared(s) == [s EXCEPT !.isConnected = FALSE, !.apiClient = FALSE]

\* initialize(webhookUrl) up to its first await.
NotifyingInitialize(url) ==
  /\ pc = "idle" /\ variant = "notifying"
  /\ webhookUrl' = url
  /\ IF service.isInitializing
     THEN /\ pc' = "done"
          /\ returned' = ReturnedBool(FALSE)
          /\ UNCHANGED service
     ELSE /\ pc' = "Notifying.disconnect"
          /\ returned' = NotReturned
          /\ service' = [service EXCEPT !.isInitializing = TRUE]
  /\ UNCHANGED <<env, waiting, menus, registered, exchange, variant, update, request, calls,
                 fileUrl, outcome, status>>

\* disconnect up to its first await: a connected service with a group id
\* tells the group first; a call that cannot be made throws into the catch.
NotifyingDisconnect ==
  /\ pc = "Notifying.disconnect"
  /\ IF /\ service.isConnected /\ service.apiClient /\ Truthy(service.groupId)
        /\ ~StatefulMakeApiCallThrows
     THEN pc' = "Notifying.disconnectNotice" /\ UNCHANGED service
     ELSE pc' = "Notifying.configure" /\ service' = Cleared(service)
  /\ UNCHANGED <<env, waiting, menus, registered, exchange, variant, webhookUrl, update, request,
                 calls, fileUrl, outcome, status, returned>>

\* The notice of disconnect; when it fails the catch of disconnect is
\* entered and deleteWebhook is not called.
NotifyingDisconnectNotice(ok) ==
  /\ pc = "Notifying.disconnectNotice"
  /\ calls' = Append(calls, NoticeCall(DisconnectingText, ok))
  /\ IF ok THEN pc' = "Notifying.deleteWebhook" /\ UNCHANGED service
     ELSE pc' = "Notifying.configure" /\ service' = Cleared(service)
  /\ UNCHANGED <<env, waiting, menus, registered, exchange, variant, webhookUrl, update, request,
                 fileUrl, outcome, status, returned>>

\* The deleteWebhook of disconnect.
NotifyingDeleteWebhook(ok) ==
  /\ pc = "Notifying.deleteWebhook"
  /\ calls' = Append(calls, ApiCall("deleteWebhook", [drop_pending_updates |-> TRUE], ok))
  /\ registered' = IF ok THEN Undefined ELSE registered
  /\ service' = Cleared(service)
  /\ pc' = "Notifying.configure"
  /\ UNCHANGED <<env, waiting, menus, exchange, variant, webhookUrl, update, request,
                 fileUrl, outcome, status, returned>>

\* initialize after disconnect: the configuration is loaded and checked, the
\* client is created.
NotifyingConfigure ==
  /\ pc = "Notifying.configure"
  /\ LET loaded == [service EXCEPT !.botToken = OrNull(env.botToken),
                                   !.groupId = OrNull(env.groupId),
                                   !.webhookUrl = OrNull(webhookUrl)]
     IN IF ~Truthy(loaded.botToken) \/ ~Truthy(loaded.groupId) \/ ~Truthy(loaded.webhookUrl)
        THEN /\ service' = [loaded EXCEPT !.isInitializing = FALSE]
             /\ returned' = ReturnedBool(FALSE)
             /\ pc' = "done"
        ELSE /\ service' = [loaded EXCEPT !.baseUrl = <<"b","o","t">> \o loaded.botToken,
                                          !.apiClient = TRUE]
             /\ pc' = "Notifying.getMe"
             /\ UNCHANGED returned
  /\ UNCHANGED <<env, waiting, menus, registered, exchange, variant, webhookUrl, update, request,
                 calls, fileUrl, outcome, status>>

\* The getMe of initialize.
NotifyingGetMe(answer) ==
  /\ pc = "Notifying.getMe"
  /\ calls' = Append(calls, ApiCall("getMe", <<>>, answer # "failed"))
  /\ IF answer = "ok"
     THEN pc' = "Notifying.setWebhook" /\ UNCHANGED <<service, returned>>
     ELSE /\ service' = [service EXCEPT !.isConnected = FALSE, !.isInitializing = FALSE]
          /\ returned' = ReturnedBool(FALSE)
          /\ pc' = "done"
  /\ UNCHANGED <<env, waiting, menus, registered, exchange, variant, webhookUrl, update, request,
                 fileUrl, outcome, status>>

\* The setWebhook of initialize: on ok the service is connected and the group
\* is told.
NotifyingSetWebhook(answer) ==
  /\ pc = "Notifying.setWebhook"
  /\ calls' = Append(calls,
       ApiCall("setWebhook",
               [url |-> service.webhookUrl,
                allowed_updates |-> <<"message", "callback_query">>,
                drop_pending_updates |-> TRUE], answer # "failed"))
  /\ registered' = IF answer = "ok" THEN service.webhookUrl ELSE registered
  /\ IF answer = "ok"
     THEN /\ service' = [service EXCEPT !.isConnected = TRUE]
          /\ pc' = "Notifying.connectedNotice"
          /\ UNCHANGED returned
     ELSE /\ service' = [service EXCEPT !.isConnected = FALSE, !.isInitializing = FALSE]
          /\ returned' = ReturnedBool(FALSE)
          /\ pc' = "done"
  /\ UNCHANGED <<env, waiting, menus, exchange, variant, webhookUrl, update, request,
                 fileUrl, outcome, status>>

\* The notice of the connection and the end of initialize; a notice that
\* fails is caught like a failed call.
NotifyingConnectedNotice(ok) ==
  /\ pc = "Notifying.connectedNotice"
  /\ IF StatefulMakeApiCallThrows
     THEN UNCHANGED calls
     ELSE calls' = Append(calls, NoticeCall(ConnectedText, ok))
  /\ LET sent == ok /\ ~StatefulMakeApiCallThrows
     IN /\ service' = [service EXCEPT !.isConnected = sent, !.isInitializing = FALSE]
        /\ returned' = ReturnedBool(sent)
  /\ pc' = "done"
  /\ UNCHANGED <<env, waiting, menus, registered, exchange, variant, webhookUrl, update, request,
                 fileUrl, outcome, status>>

\* The steps of an initialize call of either service after its entry.
InitializeStep ==
  \/ Disconnect
  \/ \E ok \in BOOLEAN : DeleteWebhook(ok)
  \/ Configure
  \/ \E answer \in {"ok", "not ok", "failed"} : GetMe(answer)
  \/ \E answer \in {"ok", "not ok", "failed"} : SetWebhook(answer)
  \/ NotifyingDisconnect
  \/ \E ok \in BOOLEAN : NotifyingDisconnectNotice(ok)
  \/ \E ok \in BOOLEAN : NotifyingDeleteWebhook(ok)
  \/ NotifyingConfigure
  \/ \E answer \in {"ok", "not ok", "failed"} : NotifyingGetMe(answer)
  \/ \E answer \in {"ok", "not ok", "failed"} : NotifyingSetWebhook(answer)
  \/ \E ok \in BOOLEAN : NotifyingConnectedNotice(ok)

\* Two initialize calls at a time against either service, in an environment
\* with and without the bot token.
InitLifecycle ==
  /\ env \in StatefulEnvs
  /\ pc = "idle"
  /\ update = NoUpdate
  /\ request = NoRequest
  /\ calls = <<>>
  /\ fileUrl = Undefined
  /\ outcome = "none"
  /\ status = 0
  /\ returned = NotReturned
  /\ variant \in {"stateful", "notifying"}
  /\ service = NewService
  /\ webhookUrl = Undefined
  /\ http = NoHttp
  /\ responseBody = NoBody
  /\ waiting = IdleLocals
  /\ menus = {}
  /\ registered = Undefined

NextLifecycle ==
  \/ pc = "idle" /\ \E url \in WebhookUrls : Initialize(url)
  \/ pc = "idle" /\ \E url \in WebhookUrls : NotifyingInitialize(url)
  \/ InitializeStep
  \/ Resume
  \/ Finish

SpecLifecycle == InitLifecycle /\ [][NextLifecycle]_vars

\* The same calls when every platform call is answered or fails in the end:
\* the request that waits gets its turn, its steps are taken, a request that
\* returned is finished.
SpecLifecycleFair ==
  /\ InitLifecycle /\ [][NextLifecycle]_vars
  /\ SF_vars(Resume) /\ SF_vars(InitializeStep) /\ WF_vars(Finish)

\* ------------------------------------------------- the routes and the webhook
\* The routes of the application: the router mounted at /api (GET
\* /initialize, GET /status, POST /message-to-telegram), the webhook endpoint
\* and the root; a request no route matches is answered 404.
WebhookRoute == <<"/","a","p","i","/","t","e","l","e","g","r","a","m","-","w","e","b","h","o","o","k">>

RouteOf(method, path) ==
  IF method = "GET" /\ path = <<"/","a","p","i","/","i","n","i","t","i","a","l","i","z","e">> THEN "initialize"
  ELSE IF method = "GET" /\ path = <<"/","a","p","i","/","s","t","a","t","u","s">> THEN "status"
  ELSE IF method = "POST" /\ path = <<"/","a","p","i","/","m","e","s","s","a","g","e","-","t","o","-","t","e","l","e","g","r","a","m">> THEN "message-to-telegram"
  ELSE IF method = "POST" /\ path = WebhookRoute THEN "telegram-webhook"
  ELSE IF method = "GET" /\ path = <<"/">> THEN "root"
  ELSE "not found"

\* `${porotocol}://${host}/api/telegram/webhook` of GET /initialize.
InitializeUrl(host) == <<"h","t","t","p","s",":","/","/">> \o host \o <<"/","a","p","i","/","t","e","l","e","g","r","a","m","/","w","e","b","h","o","o","k">>

\* The path of an absolute URL: what follows the host.
PathOf(url) ==
  LET start == CHOOSE i \in 1..Len(url) + 1 :
                 /\ i > Len(<<"h","t","t","p","s",":","/","/">>)
                 /\ i <= Len(url) => url[i] = "/"
                 /\ \A k \in (Len(<<"h","t","t","p","s",":","/","/">>) + 1)..(i - 1) : url[k] # "/"
  IN SubSeq(url, start, Len(url))

\* The Host headers of the requests, and the deployment URL of the setup
\* script (process.env.VERCEL_URL), which may be unset.
Hosts == {<<"h">>, <<"b","o","t",".","x">>}

DeploymentUrls == {Undefined} \cup {<<"h","t","t","p","s",":","/","/">> \o h : h \in Hosts}

\* GET /initialize: a connected service is reported as it is; otherwise
\* initialize is called with the URL built from the Host header.
GetInitialize(host) ==
  /\ pc = "idle" /\ variant = "stateful"
  /\ IF service.isConnected
     THEN /\ pc' = "done"
          /\ status' = 200
          /\ UNCHANGED <<service, webhookUrl, returned, waiting, menus, registered, env,
                         exchange, variant, update, request, calls, fileUrl, outcome>>
     ELSE Initialize(InitializeUrl(host))

\* The response of GET /initialize once initialize has returned.
InitializeResponse ==
  /\ pc = "done" /\ returned.kind = "bool" /\ status = 0
  /\ status' = IF returned = ReturnedBool(TRUE) THEN 200 ELSE 500
  /\ UNCHANGED <<env, waiting, menus, registered, exchange, serviceState, webhookUrl, update, request,
                 calls, fileUrl, outcome, returned, pc>>

\* The setup script of the deployment without initialize: one setWebhook for
\* the deployment URL, when the token and the URL are set.
Setup(base, answer) ==
  /\ pc = "idle" /\ variant = "stateless"
  /\ Truthy(env.botToken) /\ Truthy(base)
  /\ registered' = IF answer = "ok" THEN base \o <<"/","a","p","i","/","t","e","l","e","g","r","a","m","/","w","e","b","h","o","o","k">> ELSE registered
  /\ UNCHANGED <<env, waiting, menus, exchange, serviceState, webhookUrl, update, request,
                 calls, fileUrl, outcome, status, returned, pc>>

\* The platform delivers an update: a POST to the URL it holds. The route
\* that matches the path serves it; without one the answer is 404 and
\* handleUpdate is not called.
PlatformPost(u) ==
  /\ pc = "idle" /\ registered # Undefined
  /\ IF RouteOf("POST", PathOf(registered)) = "telegram-webhook"
     THEN PostWebhook(u)
     ELSE /\ pc' = "done"
          /\ update' = u
          /\ status' = 404
          /\ UNCHANGED <<env, waiting, menus, registered, exchange, serviceState, webhookUrl,
                         request, calls, fileUrl, outcome, returned>>

\* The deployments: the service with initialize behind GET /initialize, and
\* the service without it, whose webhook the setup script registers; each
\* with and without the bot token.
InitDelivery ==
  /\ env \in StatefulEnvs
  /\ pc = "idle"
  /\ update = NoUpdate
  /\ request = NoRequest
  /\ calls = <<>>
  /\ fileUrl = Undefined
  /\ outcome = "none"
  /\ status = 0
  /\ returned = NotReturned
  /\ variant \in {"stateless", "stateful"}
  /\ service = NewService
  /\ webhookUrl = Undefined
  /\ http = NoHttp
  /\ responseBody = NoBody
  /\ waiting = IdleLocals
  /\ menus = {}
  /\ registered = Undefined

\* Registrations and deliveries, two requests at a time. No delivery of these
\* runs reaches handleUpdate, so the handlers, which are those of Spec, take
\* no step here; and GET /initialize never calls initialize on a connected
\* service, so disconnect has no webhook to delete.
NextDelivery ==
  \/ \E host \in Hosts : GetInitialize(host)
  \/ Disconnect
  \/ Configure
  \/ \E answer \in {"ok", "not ok", "failed"} : GetMe(answer)
  \/ \E answer \in {"ok", "not ok", "failed"} : SetWebhook(answer)
  \/ InitializeResponse
  \/ \E base \in DeploymentUrls, answer \in {"ok", "not ok", "failed"} : Setup(base, answer)
  \/ \E u \in SampleUpdates \cup QuickPresses \cup {OtherUpdate} : PlatformPost(u)
  \/ Resume
  \/ status # 0 /\ Finish

SpecDelivery == InitDelivery /\ [][NextDelivery]_vars

\* ------------------------------------------------------------------ claims
\* Both environment variables are set.
Configured == variant = "stateless" /\ ~getEnvThrows

\* The update comes from the control group.
FromGroup == update.chat.present /\ update.chat.id = GroupChatId

\* A conversation id without the delimiter of the action tokens.
DelimiterFree(c) == "_" \notin Range(c)

\* The text of the message the service sent for conversation c of user n.
QuotedBy(c, n) == formatMessageForTelegram(PlainChat(c, n), PlainMessage)

\* The first conversation id embedded in QuotedBy(c, n): the user name comes
\* before the id line.
FirstRef(c, n) == IF n = HostileName THEN <<"z">> ELSE c

\* The display name and platform id of the sender of the update.
SenderIdentity ==
  [ name |-> IF update.from.last_name = Undefined THEN update.from.first_name
             ELSE update.from.first_name \o <<" ">> \o update.from.last_name,
    telegramId |-> IF update.from.id = 7 THEN <<"7">> ELSE <<"4","2">> ]

IsForward(call, event, c) ==
  call.api = "forward" /\ call.event = event /\ call.data.chatId = c

IsAdminMessage(call, c, content) ==
  /\ IsForward(call, "admin_message", c)
  /\ call.data.message.content = content
  /\ call.data.message.senderInfo = SenderIdentity

IsAnswer(call, notice) ==
  call.api = "answerCallbackQuery" /\ call.params.text = notice

ForwardCount == Cardinality({i \in 1..Len(calls) : calls[i].api = "forward"})

PlatformCount == Cardinality({i \in 1..Len(calls) : calls[i].api # "forward"})

\* A reply with a text that is no command, from a known sender in the
\* control group of a configured service, has been handled.
TextReplyHandled ==
  /\ pc = "done" /\ update.kind = "message" /\ Configured /\ FromGroup
  /\ update.from.present /\ update.reply.present
  /\ Truthy(update.text) /\ ~StartsWith(update.text, <<"/">>)

RenderedText(call) ==
  IF call.api = "sendMessage" THEN call.params.text ELSE call.params.caption

\* C2 as stated: for every chat with a legal id and every value of the other
\* fields, extraction from the text sendMessageToTelegram rendered for the
\* chat returns chat.chatId.
C2_RoundTrip ==
  (request.present /\ Len(calls) = 1) =>
    /\ RenderedText(calls[1]) = formatMessageForTelegram(request.chat, request.message)
    /\ extractChatIdFromMessage(RenderedText(calls[1])) = request.chat.chatId

\* C3 as stated: an update whose chat is not the control group causes no
\* forward and no platform call.
C3_ForeignChatIgnored ==
  (/\ Configured
   /\ update.kind \in {"message", "callback_query"}
   /\ update.chat.present /\ ~FromGroup)
    => calls = <<>>

ButtonHandled ==
  pc = "done" /\ update.kind = "callback_query" /\ Configured /\ update.from.present

\* Action type, forwarded event and notice of the three event buttons.
EventButtons ==
  { [type |-> <<"c","l","o","s","e">>, event |-> "chat_close",
     notice |-> <<"FA:chat-closed">>],
    [type |-> <<"a","s","s","i","g","n">>, event |-> "chat_assign",
     notice |-> <<"FA:chat-assigned-to-you">>],
    [type |-> <<"r","e","p","l","y","i","n","g">>, event |-> "admin_typing",
     notice |-> <<"FA:replying-status-sent">>] }

AllCallsSucceeded == \A i \in 1..Len(calls) : calls[i].ok

\* C6: when the calls succeed, a close, assign or replying action for
\* conversation c gives exactly one acknowledgment with the notice of the type
\* and exactly one forward of the event of the type, with chatId c, the
\* identity of the sender and a timestamp.
C6_EventButtonAcknowledgedAndForwarded ==
  (ButtonHandled /\ AllCallsSucceeded) =>
    \A c \in ChatIds, b \in EventButtons :
      (DelimiterFree(c) /\ update.data = b.type \o <<"_">> \o c) =>
        /\ Len(calls) = 2
        /\ IsAnswer(calls[1], b.notice)
        /\ IsForward(calls[2], b.event, c)
        /\ calls[2].data.admin = SenderIdentity
        /\ calls[2].data.timestamp = "now"

C6_Witness ==
  /\ ButtonHandled /\ AllCallsSucceeded
  /\ update.data = <<"c","l","o","s","e","_","a","-">>
  /\ update.from.last_name = <<"R">>
  /\ Len(calls) = 2

\* The button sendMessageToTelegram built for conversation c was pressed.
PressedButtonOf(c, b) == update.data = inlineKeyboard(PlainChat(c, Undefined))[b]

\* The handler decoded c and forwards its event for c once the
\* acknowledgment succeeded.
DecodedAndForwarded(c) ==
  /\ CallbackChatId(update) = c
  /\ Len(calls) >= 1
  /\ calls[1].ok => (Len(calls) = 2 /\ calls[2].api = "forward" /\ calls[2].data.chatId = c)

NoRefTexts == {Undefined, <<"h","e","y">>, ChatIdLabel}

\* C8: a reply from the control group that quotes a text without an embedded
\* id causes no forward and no platform call, whatever its own content.
C8_ReplyWithoutRefDropped ==
  (update.kind = "message" /\ FromGroup /\ update.reply.present
     /\ update.reply.text \in NoRefTexts)
    => calls = <<>>

C8_Witness ==
  /\ pc = "done" /\ update.kind = "message" /\ Configured /\ FromGroup
  /\ update.from.present /\ update.reply.present
  /\ update.reply.text = <<"h","e","y">>
  /\ update.text = <<"/","s","t","a","r","t">>
  /\ calls = <<>>

QuickmsgPrefix(c) == <<"q","u","i","c","k","m","s","g","_">> \o c

\* Index arguments outside the list: too large, negative, not a number, empty.
OutOfRangeArgs == {<<"4">>, <<"1","0">>, <<"-","1">>, <<"x">>, <<>>}

\* C9: a quickmsg action whose index is out of range or missing gives one
\* acknowledgment with the "not found" notice and no forward.
C9_QuickmsgOutOfRange ==
  ButtonHandled =>
    \A c \in ChatIds :
      (/\ DelimiterFree(c)
       /\ \/ update.data = QuickmsgPrefix(c)
          \/ \E a \in OutOfRangeArgs : update.data = QuickmsgPrefix(c) \o <<"_">> \o a)
        => (Len(calls) = 1 /\ IsAnswer(calls[1], <<"FA:quick-reply-not-found">>))

C9_Witness ==
  /\ ButtonHandled
  /\ update.data = QuickmsgPrefix(<<"Z","9">>) \o <<"_","-","1">>
  /\ Len(calls) = 1 /\ calls[1].ok

\* Index arguments inside the list, with the canned reply each selects.
InRangeArgs ==
  { [arg |-> <<"0">>, reply |-> <<"FA:reply-0">>],
    [arg |-> <<"3">>, reply |-> <<"FA:reply-3">>] }

\* C10: a quickmsg action for conversation c with an in-range index forwards
\* exactly one admin_message with chatId c and the canned reply of that index;
\* the "sent" acknowledgment is issued only after that forward completed, and
\* is issued once it has.
C10_QuickmsgForwardThenAcknowledge ==
  (update.kind = "callback_query" /\ Configured /\ update.from.present) =>
    \A c \in ChatIds, r \in InRangeArgs :
      (DelimiterFree(c) /\ update.data = QuickmsgPrefix(c) \o <<"_">> \o r.arg) =>
        /\ ForwardCount <= 1
        /\ Len(calls) >= 1 =>
             IsAdminMessage(calls[1], c, [type |-> "text", text |-> r.reply])
        /\ \A j \in 1..Len(calls) :
             calls[j].api # "forward" =>
               (j = 2 /\ calls[1].ok /\ IsAnswer(calls[j], <<"FA:quick-reply-sent">>))
        /\ pc = "done" =>
             (ForwardCount = 1 /\ (calls[1].ok => Len(calls) = 2))

C10_Witness ==
  /\ ButtonHandled
  /\ update.data = QuickmsgPrefix(<<"a","-">>) \o <<"_","3">>
  /\ Len(calls) = 2 /\ calls[2].ok

\* Tokens with an action type the handler does not know, and tokens without
\* a conversation id.
UnrecognizedData ==
  { <<"q","u","i","c","k","_","a">>, <<"t","a","g","_","a">>,
    <<"c","l","o","s","e">>, <<"c","l","o","s","e","_">>, <<"c","l","o","s","e","_","_">> }

\* C11: a callback action with an unknown action type, or without a
\* conversation id, gives no forward and no platform call other than at most
\* one acknowledgment of the button press.
C11_UnknownActionNoEffect ==
  (variant = "stateless" /\ update.kind = "callback_query"
     /\ update.data \in UnrecognizedData) =>
    /\ ForwardCount = 0
    /\ Len(calls) <= 1
    /\ \A i \in 1..Len(calls) : calls[i].api = "answerCallbackQuery"

C11_Witness ==
  /\ ButtonHandled /\ update.data = <<"t","a","g","_","a">>
  /\ calls = <<>> /\ status = 200

\* C12: a control-group reply that quotes a message with an extractable id
\* is handled as an operator reply, forwarded as admin_message, even when its
\* text starts with '/', and is not handled as a command.
C12_ReplyBeforeCommand ==
  (/\ pc = "done" /\ update.kind = "message" /\ Configured /\ FromGroup
   /\ update.from.present /\ update.reply.present
   /\ Truthy(update.text) /\ StartsWith(update.text, <<"/">>)) =>
    \A c \in ChatIds :
      update.reply.text = QuotedBy(c, <<"A","l","i">>) =>
        /\ ForwardCount = 1
        /\ IsAdminMessage(calls[1], c, [type |-> "text", text |-> update.text])
        /\ \A i \in 1..Len(calls) : calls[i].api # "sendMessage" \/ ~calls[1].ok

\* C13: sendMessageToTelegram never throws, and returns null whenever it did
\* not get a message sent.
C13_SendFailsSoft ==
  request.present =>
    /\ returned.kind # "thrown"
    /\ (pc \in {"messageResponse", "done"} /\ ~(Len(calls) = 1 /\ calls[1].ok))
         => returned = ReturnedNull

\* The platform sends the ready flag is meant to gate.
PlatformSends == {"sendMessage", "sendPhoto", "sendDocument", "answerCallbackQuery"}

\* C14: in the stateful service no platform send is issued while isConnected
\* is false.
C14_ReadyFlagGatesSends ==
  (variant = "stateful" /\ ~service.isConnected) =>
    \A i \in 1..Len(calls) : calls[i].api \notin PlatformSends

\* The stateless service, configured, has served a request whose content is
\* a text, an image with its URL or a file with its URL.
SendServed ==
  /\ pc \in {"messageResponse", "done"} /\ request.present /\ Configured
  /\ \/ request.message.content.type = "text"
     \/ Truthy(request.message.content.fileUrl)

\* The call the content kind asks for, with the rendered text and the group
\* as destination.
CallForContent(call) ==
  LET content  == request.message.content
      rendered == formatMessageForTelegram(request.chat, request.message)
  IN /\ call.params.chat_id = <<"-","1","0","0">>
     /\ content.type = "text" =>
          (call.api = "sendMessage" /\ call.params.text = rendered)
     /\ content.type = "image" =>
          (/\ call.api = "sendPhoto" /\ call.params.photo = content.fileUrl
           /\ call.params.caption = rendered)
     /\ content.type = "file" =>
          (/\ call.api = "sendDocument" /\ call.params.document = content.fileUrl
           /\ call.params.caption = rendered)

\* The Action set of an unclaimed conversation c.
ActionsFor(c) ==
  << <<"a","s","s","i","g","n","_">> \o c,
     <<"r","e","p","l","y","i","n","g","_">> \o c,
     <<"c","l","o","s","e","_">> \o c >>

\* C15: with the channel usable, sendMessageToTelegram issues exactly one
\* platform call, chosen by content kind, with the Action set of the
\* conversation whatever the kind, and returns the message id the platform
\* assigned in that call.
C15_OneCallByContentKind ==
  SendServed =>
    /\ Len(calls) = 1
    /\ CallForContent(calls[1])
    /\ calls[1].params.reply_markup = inlineKeyboard(request.chat)
    /\ request.chat.assignedAdminTelegramId = Undefined =>
         calls[1].params.reply_markup = ActionsFor(request.chat.chatId)
    /\ calls[1].ok => returned = ReturnedId(calls[1].message_id)

C15_Witness ==
  /\ SendServed /\ pc = "done" /\ request.message.content.type = "file"
  /\ calls[1].ok /\ calls[1].message_id = 502
  /\ responseBody = JsonBody(TRUE, 502)

\* C16: the Action set of the outbound call holds the close action, and holds
\* the claim action exactly when the conversation is unclaimed.
C16_ActionSetByClaimState ==
  (variant = "stateless" /\ request.present /\ Len(calls) = 1) =>
    LET actions == Range(calls[1].params.reply_markup)
        c       == request.chat.chatId
    IN /\ <<"c","l","o","s","e","_">> \o c \in actions
       /\ (<<"a","s","s","i","g","n","_">> \o c \in actions)
            <=> (request.chat.assignedAdminTelegramId = Undefined)

\* The request has no header, another key, or there is no key to compare with.
Unauthenticated ==
  /\ http.present
  /\ http.apiKey # <<"K">> \/ env.mainServerApiKey # <<"K">>

\* C17: a request to /message-to-telegram without the configured key is
\* answered 401 and never reaches sendMessageToTelegram: no call is made.
C17_UnauthenticatedRejected ==
  Unauthenticated =>
    /\ status = 401
    /\ ~request.present /\ returned = NotReturned
    /\ calls = <<>>

C17_Witness ==
  /\ pc = "done" /\ Unauthenticated
  /\ http.apiKey = Undefined /\ env.mainServerApiKey = Undefined
  /\ http.hasChat /\ http.hasMessage /\ status = 401

\* An authenticated request has been answered.
AuthenticatedAnswered ==
  /\ pc = "done" /\ http.present
  /\ http.apiKey = <<"K">> /\ env.mainServerApiKey = <<"K">>

\* C18: an authenticated request is answered {success: true,
\* telegramMessageId} exactly when sendMessageToTelegram returned a message
\* id; 400 without a call of the service when chat or message is missing;
\* 500 and no success for a null result and for an exception.
C18_ResponseFollowsResult ==
  AuthenticatedAnswered =>
    /\ (~http.hasChat \/ ~http.hasMessage) =>
         (status = 400 /\ ~request.present /\ calls = <<>> /\ ~responseBody.success)
    /\ (http.hasChat /\ http.hasMessage) =>
         /\ request.present
         /\ (returned.kind = "id")
              <=> (status = 200 /\ responseBody = JsonBody(TRUE, returned.id))
         /\ returned.kind \in {"null", "thrown"} =>
              (status = 500 /\ ~responseBody.success)
         /\ returned.kind \in {"id", "null", "thrown"}

C18_Witness ==
  /\ AuthenticatedAnswered /\ request.present
  /\ Len(calls) = 1 /\ ~calls[1].ok /\ returned = ReturnedNull
  /\ status = 500

\* Texts that were not produced by embedding a conversation id.
NotEmbedded ==
  { <<"h","e","y">>, ChatIdLabel, LabelWithoutEmoji, LabelWithHalfEmoji,
    ChatIdLabel \o <<"z">> }

\* C19: for a quoted text that was not produced by embedding an id,
\* extraction finds nothing and the reply is attached to no conversation.
C19_NoFalsePositive ==
  (update.kind = "message" /\ update.reply.present /\ update.reply.text \in NotEmbedded) =>
    /\ extractChatIdFromMessage(update.reply.text) = Null
    /\ ForwardCount = 0

\* A message of the control group that is no reply has been handled by the
\* configured stateless service.
PlainMessageHandled ==
  /\ pc = "done" /\ update.kind = "message" /\ Configured /\ FromGroup
  /\ ~update.reply.present

\* C20: a command that is no reply gets exactly one sendMessage, to the chat
\* it came from, and no forward when its verb is start or status in any
\* case; a command with another verb gets nothing.
C20_CommandDispatch ==
  PlainMessageHandled =>
    /\ update.text \in {<<"/","s","t","a","r","t">>, <<"/","S","t","a","t","u","s"," ","x">>} =>
         /\ Len(calls) = 1
         /\ calls[1].api = "sendMessage"
         /\ calls[1].params.chat_id = <<"-","1","0","0">>
    /\ update.text = <<"/","x">> => calls = <<>>

C20_Witness ==
  /\ PlainMessageHandled
  /\ update.text = <<"/","S","t","a","t","u","s"," ","x">>
  /\ Len(calls) = 1 /\ calls[1].ok

\* A message of the control group that is neither a reply nor a command.
PlainGroupMessage ==
  /\ update.kind = "message" /\ FromGroup
  /\ ~update.reply.present
  /\ ~(Truthy(update.text) /\ StartsWith(update.text, <<"/">>))

\* C21: a control-group message that is neither a reply nor a command is a
\* no-op: no platform call and no forward is issued for it at any point of
\* its handling, and the stateless service, which has no fields, keeps none.
C21_PlainMessageNoOp ==
  PlainGroupMessage =>
    /\ calls = <<>>
    /\ variant = "stateless" => service = NewService

\* A photo with no text, sent to the group without quoting anything, has been
\* handled and acknowledged.
C21_Witness ==
  /\ PlainGroupMessage /\ Configured /\ pc = "done" /\ status = 200
  /\ update.text = Undefined /\ update.photo # <<>> /\ update.from.present
  /\ calls = <<>>

\* C22: no retries. Handling one update makes at most one forward attempt,
\* one sendMessageToTelegram call makes at most one platform send attempt and
\* no forward; a failed forward or send is followed by no second one.
C22_NoRetries ==
  /\ update.kind # "none" => ForwardCount <= 1
  /\ request.present => (PlatformCount <= 1 /\ ForwardCount = 0)

\* The forward of an operator reply failed; the handling ended with the error
\* notice and without another forward.
C22_Witness ==
  /\ pc = "done" /\ update.kind = "message" /\ Configured
  /\ Len(calls) = 2 /\ calls[1].api = "forward" /\ ~calls[1].ok
  /\ calls[2].api = "sendMessage"

\* The request with locals l is an initialize call past the in-progress test.
PastGuard(l) == l.pc \in {"disconnect", "deleteWebhook", "configure", "getMe", "setWebhook"}

\* The request with locals l is an initialize call that has returned.
InitializeReturned(l) == l.pc = "done" /\ l.returned.kind = "bool"

\* C23: under any interleaving of two initialize calls at most one is past
\* the in-progress test and the flag is set while one is; a call arriving
\* meanwhile returns false, has issued no platform call and leaves the flag
\* set; two setWebhook calls are never in flight together.
C23_InFlightGuard ==
  /\ ~(PastGuard(Locals) /\ PastGuard(waiting))
  /\ (PastGuard(Locals) \/ PastGuard(waiting)) => service.isInitializing
  /\ (PastGuard(waiting) /\ InitializeReturned(Locals)) =>
       (returned = ReturnedBool(FALSE) /\ calls = <<>>)
  /\ ~(pc = "setWebhook" /\ waiting.pc = "setWebhook")

\* While the setWebhook of one call is awaited, a second call has come and
\* has returned false.
C23_Witness ==
  /\ waiting.pc = "setWebhook" /\ InitializeReturned(Locals)
  /\ webhookUrl # Undefined
  /\ returned = ReturnedBool(FALSE) /\ calls = <<>> /\ service.isInitializing

\* C24: the webhook delivery is acknowledged without waiting for the calls
\* its handling makes: while a forward or a platform call of the delivery is
\* awaited, and whenever one has completed, the 200 has been issued already.
C24_AckNotDelayed ==
  update.kind # "none" =>
    /\ pc \in AwaitPoints => status = 200
    /\ calls # <<>> => status = 200

\* The content of the i-th call, a forwarded admin_message, is an image or a
\* file.
ForwardsMedia(i) ==
  /\ calls[i].api = "forward" /\ calls[i].event = "admin_message"
  /\ calls[i].data.message.content.type \in {"image", "file"}

\* C25: an operator reply with a photo or a document and no text is forwarded
\* with content type image or file and the URL a successful getFile call
\* resolved; no image or file is forwarded with a null or missing fileUrl.
C25_MediaReplyResolved ==
  (Configured /\ update.kind = "message") =>
    \A i \in 1..Len(calls) :
      ForwardsMedia(i) =>
        /\ calls[i].data.message.content.type =
             (IF update.photo # <<>> THEN "image" ELSE "file")
        /\ Truthy(calls[i].data.message.content.fileUrl)
        /\ i = 2 /\ calls[1].api = "getFile" /\ calls[1].ok

\* C26: in the stateful service a control-group reply with a text, quoting a
\* message with a valid conversation id, is forwarded as admin_message in
\* every lifecycle state: before the first initialize, while connected, after
\* a failed initialize and after disconnect.
C26_ClassifiedInEveryLifecycleState ==
  (/\ variant = "stateful" /\ pc = "done" /\ update.kind = "message" /\ FromGroup
   /\ update.from.present /\ update.reply.present
   /\ Truthy(update.text) /\ ~StartsWith(update.text, <<"/">>)) =>
    \A c \in ChatIds :
      update.reply.text = QuotedBy(c, <<"A","l","i">>) =>
        /\ ForwardCount = 1
        /\ IsAdminMessage(calls[1], c, [type |-> "text", text |-> update.text])

\* What a call is, and whether it succeeded.
Kind(call) == IF call.api = "forward" THEN call.event ELSE call.api

Trace(l) == [i \in 1..Len(l.calls) |-> <<Kind(l.calls[i]), l.calls[i].ok>>]

IsPrefix(a, b) == Len(a) <= Len(b) /\ SubSeq(b, 1, Len(a)) = a

\* The calls the handling of a reply ends with: the forward, and the error
\* notice after a failed forward.
ReplyRuns ==
  { << <<"admin_message", TRUE>> >> }
    \cup { << <<"admin_message", FALSE>>, <<"sendMessage", ok>> >> : ok \in BOOLEAN }

\* The calls the stateless service issues for each delivery handled alone,
\* with their outcomes.
RunsAlone(u) ==
  IF u = ReplyByOperator7 THEN ReplyRuns
  ELSE IF u = PhotoReplyByOperator42
       THEN { << <<"getFile", ok>> >> \o r : ok \in BOOLEAN, r \in ReplyRuns }
  ELSE IF u = StartByOperator7 THEN { << <<"sendMessage", ok>> >> : ok \in BOOLEAN }
  ELSE IF u = CloseByOperator7
       THEN { << <<"answerCallbackQuery", FALSE>> >> }
              \cup { << <<"answerCallbackQuery", TRUE>>, <<"chat_close", ok>> >> :
                       ok \in BOOLEAN }
  ELSE { << <<"admin_message", FALSE>> >> }
         \cup { << <<"admin_message", TRUE>>, <<"answerCallbackQuery", ok>> >> :
                  ok \in BOOLEAN }

\* The conversation and the operator of each delivery.
ConversationOf(u) == IF u.from.id = 7 THEN <<"a">> ELSE <<"Z","9">>

OperatorOf(u) ==
  IF u.from.id = 7 THEN [name |-> <<"S","a","m">>, telegramId |-> <<"7">>]
  ELSE [name |-> <<"S","a","m"," ","R">>, telegramId |-> <<"4","2">>]

\* The notice the press of each operator is acknowledged with.
NoticeOf(u) == IF u.from.id = 7 THEN <<"FA:chat-closed">> ELSE <<"FA:quick-reply-sent">>

\* The identity a forward carries.
ForwardedIdentity(call) ==
  IF call.event = "admin_message" THEN call.data.message.senderInfo ELSE call.data.admin

\* The request with locals l has issued the calls of its own delivery, as it
\* does alone, each with the conversation and operator of that delivery.
HandledAsAlone(l) ==
  l.update \in SampleUpdates =>
    /\ \E r \in RunsAlone(l.update) : IsPrefix(Trace(l), r)
    /\ l.pc = "done" => Trace(l) \in RunsAlone(l.update)
    /\ \A i \in 1..Len(l.calls) :
         /\ l.calls[i].api = "forward" =>
              /\ l.calls[i].data.chatId = ConversationOf(l.update)
              /\ ForwardedIdentity(l.calls[i]) = OperatorOf(l.update)
         /\ l.calls[i].api = "answerCallbackQuery" =>
              l.calls[i].params.text = NoticeOf(l.update)

HandlerStep ==
  \/ update.kind # "none" \/ update'.kind # "none"
  \/ request.present \/ request'.present

\* C28: no step of handleUpdate or of sendMessageToTelegram changes a field
\* of the stateful service (isConnected, isInitializing, apiClient, groupId,
\* botToken, baseUrl, webhookUrl; the canned replies are a constant); the
\* fields change in the steps of initialize and its disconnect only.
C28_HandlersKeepServiceState ==
  [][/\ HandlerStep => service' = service
     /\ service' # service =>
          pc \in {"idle", "disconnect", "deleteWebhook", "configure", "getMe", "setWebhook"}]_vars

\* The connected stateful service has sent a message and is connected still.
C28_Witness ==
  /\ variant = "stateful" /\ pc = "done" /\ request.present
  /\ Len(calls) = 1 /\ ~calls[1].ok
  /\ service.isConnected /\ service.apiClient /\ service.groupId = <<"-","1","0","0">>

\* The calls of one kind among the calls of the request.
C29_CallsOf(method) == {k \in 1..Len(calls) : calls[k].api = method}

\* quickmsg_<c>_<i> for i = 0, 1, 2, 3, written out.
C29_Tokens(c) ==
  [i \in 1..4 |-> <<"q","u","i","c","k","m","s","g","_">> \o c \o <<"_">>
                  \o << <<"0","1","2","3">>[i] >>]

\* C29: in the service that keeps the chats, for a conversation c whose id
\* has no delimiter, a press of quick_<c> with a usable channel sends one
\* message whose keyboard has one button per canned reply, the i-th carrying
\* quickmsg_<c>_<i> counted from 0; and a press of the i-th button of a menu
\* the group shows is handled by the quickmsg branch: it looks up chat c, and
\* once the chat is found and saved it delivers exactly one message to
\* conversation c, the i-th canned reply, and never anything else.
C29_QuickReplyFlow ==
  (variant = "persisting" /\ update.kind = "callback_query") =>
    /\ \A c \in MenuChatIds :
         ( /\ DelimiterFree(c)
           /\ update.data = <<"q","u","i","c","k","_">> \o c
           /\ update.chat.present
           /\ ~PersistingMakeApiCallThrows
           /\ pc = "done" ) =>
         /\ Len(calls) >= 1
         /\ calls[1].api = "sendMessage"
         /\ Cardinality(C29_CallsOf("sendMessage")) = 1
         /\ Len(calls[1].params.reply_markup) = Len(quickReplies)
         /\ calls[1].params.reply_markup = C29_Tokens(c)
         /\ calls[1].ok => \E m \in menus : m.tokens = C29_Tokens(c)
         /\ C29_CallsOf("socketService.sendMessageToUser") = {}
    /\ \A m \in menus : \A i \in 1..Len(m.tokens) :
         (DelimiterFree(m.for) /\ update.data = m.tokens[i]) =>
         /\ update.data = C29_Tokens(m.for)[i]
         /\ \A k \in C29_CallsOf("socketService.sendMessageToUser") :
              /\ calls[k].chatId = m.for
              /\ calls[k].message.content.text = quickReplies[i]
              /\ calls[k].message.sender = "admin"
         /\ Cardinality(C29_CallsOf("socketService.sendMessageToUser")) <= 1
         /\ C29_CallsOf("sendMessage") = {}
         /\ pc = "done" =>
              /\ calls[1] = StoreCall("Chat.findOne", m.for, Null, calls[1].ok)
              /\ (\E k \in C29_CallsOf("chat.save") : calls[k].ok)
                   <=> Cardinality(C29_CallsOf("socketService.sendMessageToUser")) = 1

\* C29 witness: the group shows the menu of conversation Z9, its third button
\* was pressed, and the third canned reply went to Z9 through the socket.
C29_Witness ==
  /\ variant = "persisting" /\ pc = "done"
  /\ \E m \in menus :
       /\ m.for = <<"Z","9">>
       /\ update.data = m.tokens[3]
  /\ \E k \in 1..Len(calls) :
       /\ calls[k].api = "socketService.sendMessageToUser"
       /\ calls[k].chatId = <<"Z","9">>
       /\ calls[k].message.content.text = quickReplies[3]
  /\ calls[Len(calls)].api = "editMessageText" /\ calls[Len(calls)].ok

\* C30: in the stateful service, in every state two interleaved requests
\* (initialize, deliveries, sends) can reach, a connected service has its
\* client, its bot token and its group id loaded.
C30_ConnectedIsLoaded ==
  (variant = "stateful" /\ service.isConnected) =>
    /\ service.apiClient
    /\ service.botToken # Null /\ Truthy(service.botToken)
    /\ service.groupId # Null /\ Truthy(service.groupId)

\* C30 witness: the service is connected, a second initialize awaits the
\* removal of the webhook, and a delivery or a send is in flight beside it.
C30_Witness ==
  /\ variant = "stateful" /\ service.isConnected /\ service.isInitializing
  /\ pc = "deleteWebhook"
  /\ waiting.pc \in {"Stateful." \o l : l \in AwaitLabels}
  /\ service.apiClient /\ service.botToken = BotTokenText /\ service.groupId = GroupIdText

\* A step in which initialize finds the configuration missing, or getMe or
\* setWebhook fails or is answered not ok, or the notice of the connection
\* fails.
C31_FailingStep ==
  \/ (Configure \/ NotifyingConfigure) /\ pc' = "done"
  \/ \E answer \in {"not ok", "failed"} :
       \/ GetMe(answer) \/ SetWebhook(answer)
       \/ NotifyingGetMe(answer) \/ NotifyingSetWebhook(answer)
  \/ NotifyingConnectedNotice(FALSE)

\* C31: isConnected turns true only in the step in which setWebhook is
\* answered ok, the call before it being the getMe of the same initialize;
\* a step in which the configuration is missing or a call fails or is
\* answered not ok returns false and leaves isConnected false; and an
\* initialize that passed the in-progress guard returns the value isConnected
\* has when it returns.
C31_ConnectedOnlyByInitialize ==
  /\ [][ /\ (~service.isConnected /\ service.isConnected') =>
              /\ SetWebhook("ok") \/ NotifyingSetWebhook("ok")
              /\ Len(calls) >= 1
              /\ calls[Len(calls)].api = "getMe" /\ calls[Len(calls)].ok
              /\ calls'[Len(calls')].api = "setWebhook" /\ calls'[Len(calls')].ok
         /\ C31_FailingStep =>
              /\ pc' = "done"
              /\ returned' = ReturnedBool(FALSE)
              /\ ~service.isConnected' ]_vars
  /\ [](( /\ pc = "done" /\ returned.kind = "bool"
          /\ ~service.isInitializing ) =>
        returned = ReturnedBool(service.isConnected))

\* C31 witness: an initialize of the announcing service has returned true
\* after getMe, setWebhook and the notice, and the service is connected.
C31_Witness ==
  /\ variant = "notifying" /\ pc = "done"
  /\ returned = ReturnedBool(TRUE) /\ service.isConnected /\ ~service.isInitializing
  /\ Len(calls) >= 3
  /\ calls[Len(calls) - 2].api = "getMe"
  /\ calls[Len(calls) - 1].api = "setWebhook"
  /\ calls[Len(calls)].api = "sendMessage"

\* The positions of an initialize call that has set the in-progress flag.
C32_InInitialize ==
  {"disconnect", "deleteWebhook", "configure", "getMe", "setWebhook",
   "Notifying.disconnect", "Notifying.configure"} \cup NotifyingAwaitLabels

\* C32: when every platform call is answered or fails in the end, a set
\* in-progress flag is always reset later, and every step in which an
\* initialize that set the flag returns (success, missing configuration,
\* failed getMe, failed setWebhook) resets it.
C32_GuardReleased ==
  /\ [][(pc \in C32_InInitialize /\ pc' = "done") => ~service.isInitializing']_vars
  /\ [](pc \in C32_InInitialize => service.isInitializing)
  /\ (service.isInitializing ~> ~service.isInitializing)

\* C32 witness: an initialize has returned false after a getMe that failed
\* and the flag is reset.
C32_Witness ==
  /\ pc = "done" /\ returned = ReturnedBool(FALSE)
  /\ calls # <<>>
  /\ calls[Len(calls)].api = "getMe" /\ ~calls[Len(calls)].ok
  /\ ~service.isInitializing

\* The calls of the press so far are at most a first call of one kind and,
\* only after that one succeeded, a second call of the other kind; once the
\* press is handled, a failed first call stands alone, nothing was thrown out
\* of handleUpdate and the delivery was answered 200.
C33_FirstThenSecond(first, second) ==
  /\ Len(calls) <= 2
  /\ Len(calls) >= 1 => calls[1].api = first
  /\ Len(calls) = 2 => (calls[1].ok /\ calls[2].api = second)
  /\ pc = "done" =>
       /\ outcome = "returned" /\ status = 200
       /\ (Len(calls) >= 1 /\ ~calls[1].ok) => Len(calls) = 1

\* C33: in the stateless service, for a press by a known sender on a token
\* of a conversation without the delimiter: for close, assign and replying
\* the acknowledgment comes first and the event is forwarded only after it
\* succeeded; for a quickmsg with an index in range the forward comes first
\* and the acknowledgment only after it succeeded; a failed call is not
\* repeated and its exception does not leave the handler.
C33_OrderUnderFailure ==
  (variant = "stateless" /\ update.kind = "callback_query" /\ update.from.present) =>
    \A c \in ChatIds :
      DelimiterFree(c) =>
        /\ \A b \in EventButtons :
             update.data = b.type \o <<"_">> \o c =>
               /\ C33_FirstThenSecond("answerCallbackQuery", "forward")
               /\ \A j \in 1..Len(calls) :
                    calls[j].api = "forward" => calls[j].event = b.event
        /\ \A r \in InRangeArgs :
             update.data = QuickmsgPrefix(c) \o <<"_">> \o r.arg =>
               /\ C33_FirstThenSecond("forward", "answerCallbackQuery")
               /\ \A j \in 1..Len(calls) :
                    calls[j].api = "forward" => calls[j].event = "admin_message"

\* C33 witness: the forward of an in-range quickmsg failed; the press is
\* handled with that one call, no acknowledgment, and a 200.
C33_Witness ==
  /\ variant = "stateless" /\ pc = "done" /\ update.kind = "callback_query"
  /\ update.data = QuickmsgPrefix(<<"a">>) \o <<"_","0">>
  /\ Len(calls) = 1 /\ calls[1].api = "forward" /\ ~calls[1].ok
  /\ outcome = "returned" /\ status = 200

\* The forwards and the notices among the calls of the delivery.
C34_Forwards == {j \in 1..Len(calls) : calls[j].api = "forward"}

C34_Notices == {j \in 1..Len(calls) : calls[j].api = "sendMessage"}

\* C34: in the stateless service, once a reply whose forward to the main
\* server failed is handled, that forward was the only one and none
\* succeeded, exactly one notice was sent after it, to the control group,
\* with the error text ending in the conversation id of the forward, and
\* handleUpdate returned without throwing whether or not the notice went
\* through.
C34_ForwardFailureNoticed ==
  ( /\ variant = "stateless" /\ pc = "done" /\ update.kind = "message"
    /\ \E j \in C34_Forwards : ~calls[j].ok ) =>
    /\ Cardinality(C34_Forwards) = 1
    /\ \A j \in C34_Forwards : ~calls[j].ok /\ calls[j].event = "admin_message"
    /\ Cardinality(C34_Notices) = 1
    /\ \A n \in C34_Notices : \A j \in C34_Forwards :
         /\ n = Len(calls) /\ j = n - 1
         /\ calls[n].params.chat_id = GroupIdText
         /\ calls[n].params.text =
              <<"274C", " ", "FA:forward-failed-for-chat", " ">> \o calls[j].data.chatId
    /\ outcome = "returned"
    /\ status = 200

\* C34 witness: the forward of a reply failed and the notice failed too; the
\* delivery is handled and handleUpdate returned.
C34_Witness ==
  /\ variant = "stateless" /\ pc = "done" /\ update.kind = "message"
  /\ Len(calls) = 2
  /\ calls[1].api = "forward" /\ ~calls[1].ok
  /\ calls[2].api = "sendMessage" /\ ~calls[2].ok
  /\ outcome = "returned"

\* C35: a reply that quotes a message without text whose caption carries
\* the conversation id (what sendPhoto and sendDocument produce) is dropped:
\* at no point of its handling is there a forward or a platform call, and
\* handleUpdate returns.
C35_CaptionNotRead ==
  ( /\ update.kind = "message" /\ update.reply.present
    /\ ~Truthy(update.reply.text)
    /\ Truthy(update.reply.caption)
    /\ extractChatIdFromMessage(update.reply.caption) \in {<<"a">>, <<"Z","9">>} ) =>
    /\ calls = <<>>
    /\ pc = "done" => (outcome = "returned" /\ status = 200)

\* C35 witness: an operator of the control group has replied with a text to
\* the photo message of conversation Z9; the configured stateless service
\* has handled the delivery without a call.
C35_Witness ==
  /\ pc = "done" /\ update.kind = "message" /\ Configured /\ FromGroup
  /\ update.from.present /\ update.reply.present
  /\ update.reply.text = Undefined
  /\ extractChatIdFromMessage(update.reply.caption) = <<"Z","9">>
  /\ update.text = <<"h","e","l","l","o">>
  /\ calls = <<>> /\ status = 200

\* C36: in the service of telegram_service.ts, an initialize that finds the
\* service connected awaits deleteWebhook next; deleteWebhook is the first
\* call of the initialize, so it is answered or has failed before getMe and
\* setWebhook; answered or failed, the initialize goes on to load the
\* configuration with the service disconnected; and an initialize that then
\* returns false leaves the service disconnected.
C36_TearDownFirst ==
  /\ [][ variant = "stateful" =>
           /\ (Disconnect /\ service.isConnected) =>
                (pc' = "deleteWebhook" /\ calls' = calls /\ calls = <<>>)
           /\ (\E ok \in BOOLEAN : DeleteWebhook(ok)) =>
                /\ pc' = "configure"
                /\ ~service.isConnected' /\ service.isInitializing'
                /\ UNCHANGED returned ]_vars
  /\ [](variant = "stateful" =>
          /\ \A j \in 1..Len(calls) : calls[j].api = "deleteWebhook" => j = 1
          /\ pc \in {"configure", "getMe", "setWebhook"} => ~service.isConnected
          /\ ( /\ pc = "done" /\ ~service.isInitializing
               /\ returned = ReturnedBool(FALSE) ) => ~service.isConnected)

\* C36 witness: a connected service was initialized again; deleteWebhook
\* failed, getMe was answered, setWebhook was not answered ok; the initialize
\* returned false and the service is disconnected.
C36_Witness ==
  /\ variant = "stateful" /\ pc = "done"
  /\ Len(calls) = 3
  /\ calls[1].api = "deleteWebhook" /\ ~calls[1].ok
  /\ calls[2].api = "getMe" /\ calls[3].api = "setWebhook"
  /\ returned = ReturnedBool(FALSE) /\ ~service.isConnected /\ ~service.isInitializing

\* C37: whenever no initialize is in progress, isConnected is true exactly
\* when the platform holds a webhook this service registered; no webhook
\* stays registered while isConnected is false.
C37_FlagAgreesWithPlatform ==
  ~service.isInitializing =>
    (service.isConnected <=> (registered # Undefined /\ registered = service.webhookUrl))

\* C38: the URL the platform holds for the bot is one at which the
\* application accepts webhook POSTs, and an update the platform delivered
\* to it was passed to handleUpdate, not answered 404.
C38_RegisteredUrlIsServed ==
  /\ registered # Undefined => RouteOf("POST", PathOf(registered)) = "telegram-webhook"
  /\ update.kind # "none" => status # 404

====
